---------------------------- MODULE Spec2Model ----------------------------
(***************************************************************************)
(* Frame compositing and animation engine of keyboard_vis.                 *)
(*                                                                         *)
(* Sources: src/src/utils.rs (colors, lerp_color, fade_into_frame,         *)
(* flash_color, composite, get_base, num2xy), src/src/main.rs              *)
(* (enq_keyboard_frame, render_keyboard_frames) and src/src/dbus.rs        *)
(* (the handlers registered by process_dbus).                              *)
(***************************************************************************)
EXTENDS Integers, Sequences, FiniteSets, TLC

(***************************************************************************)
(* Geometry constants, utils.rs:66-80.                                     *)
(***************************************************************************)
ROW_LENGTH == 22
ROW_COUNT == 6
TOTAL_LEDS == ROW_LENGTH * ROW_COUNT
COL_OFFSET_START == 1
COL_OFFSET_END == 4
TOP_ROW_LENGTH == ROW_LENGTH - COL_OFFSET_END - COL_OFFSET_START
FRAME_DURATION_MS == 75

(***************************************************************************)
(* Color: three u8 channels (openrgb::data::Color), held as the 24-bit     *)
(* number r * 2^16 + g * 2^8 + b.                                          *)
(***************************************************************************)
Col(r, g, b) == r * 65536 + g * 256 + b
ColR(c) == c \div 65536
ColG(c) == (c \div 256) % 256
ColB(c) == c % 256

BLACK == Col(0, 0, 0)
WHITE == Col(255, 255, 255)
GRAY == Col(80, 65, 80)
DIM_GRAY == Col(40, 35, 40)
MAIN_COLOR == Col(158, 32, 0)
TOP_ROW_COLOR == Col(209, 153, 0)
RED == Col(255, 0, 0)
GREEN == Col(0, 255, 0)
BLUE == Col(0, 0, 255)
PURPLE == Col(255, 0, 255)

(***************************************************************************)
(* f64 arithmetic.  A non-negative double d is held exactly as the         *)
(* fixed-point number d * 2^(15*FRAC_LIMBS), written in base 2^15 with the *)
(* least significant limb first; the last limb is the integer part.  Every *)
(* operation computes the exact result and rounds it to 53 significant     *)
(* bits, ties to even, as IEEE-754 binary64 does.  All doubles the engine  *)
(* computes with lie in [2^-37, 2^15) or are 0, where this is exact.       *)
(***************************************************************************)
LIMB == 2^15
FRAC_LIMBS == 6
ALL_LIMBS == FRAC_LIMBS + 1
MANTISSA_BITS == 53

RECURSIVE NormRec(_, _, _)
NormRec(X, i, carry) ==
    IF i > Len(X) THEN <<>>
    ELSE LET v == X[i] + carry
         IN  <<v % LIMB>> \o NormRec(X, i + 1, v \div LIMB)

\* Carry propagation; a carry out of the last limb is dropped.
Norm(X) == NormRec(X, 1, 0)

RECURSIVE BitLenNat(_)
BitLenNat(n) == IF n = 0 THEN 0 ELSE 1 + BitLenNat(n \div 2)

RECURSIVE TopLimb(_, _)
TopLimb(X, i) == IF i = 0 THEN 0 ELSE IF X[i] # 0 THEN i ELSE TopLimb(X, i - 1)

BitLen(X) ==
    LET t == TopLimb(X, Len(X))
    IN  IF t = 0 THEN 0 ELSE 15 * (t - 1) + BitLenNat(X[t])

\* Bit j (0 = least significant) of X.
Bit(X, j) == (X[(j \div 15) + 1] \div (2^(j % 15))) % 2

\* Some bit below bit j is set.
LowNonZero(X, j) ==
    \/ \E i \in 1..(j \div 15) : X[i] # 0
    \/ X[(j \div 15) + 1] % (2^(j % 15)) # 0

\* X with the bits below bit r cleared.
ClearLow(X, r) ==
    [i \in 1..Len(X) |->
        IF i <= r \div 15 THEN 0
        ELSE IF i = (r \div 15) + 1 THEN X[i] - (X[i] % (2^(r % 15)))
        ELSE X[i]]

AddPow2(X, r) ==
    Norm([i \in 1..Len(X) |->
            IF i = (r \div 15) + 1 THEN X[i] + 2^(r % 15) ELSE X[i]])

\* Round to 53 significant bits, ties to even; sticky: the exact value has
\* further non-zero bits below X.
Round53(X, sticky) ==
    LET r == BitLen(X) - MANTISSA_BITS
    IN  IF r <= 0 THEN X
        ELSE LET guard == Bit(X, r - 1) = 1
                 st    == sticky \/ LowNonZero(X, r - 1)
                 odd   == Bit(X, r) = 1
                 T     == ClearLow(X, r)
             IN  IF guard /\ (st \/ odd) THEN AddPow2(T, r) ELSE T

F64FromNat(k) == [i \in 1..ALL_LIMBS |-> IF i = ALL_LIMBS THEN k ELSE 0]
F64Zero == F64FromNat(0)
F64One == F64FromNat(1)

\* Quotient limbs of rem * LIMB^i / b, most significant first, then the
\* final remainder.
RECURSIVE DivRec(_, _, _)
DivRec(rem, b, i) ==
    IF i = 0 THEN <<rem>>
    ELSE <<(rem * LIMB) \div b>> \o DivRec((rem * LIMB) % b, b, i - 1)

\* a as f64 / b as f64 for naturals a, b with 0 < b <= LIMB.
F64Div(a, b) ==
    LET d == DivRec(a % b, b, FRAC_LIMBS)
        Q == [i \in 1..ALL_LIMBS |->
                IF i = ALL_LIMBS THEN a \div b ELSE d[FRAC_LIMBS + 1 - i]]
    IN  Round53(Q, d[FRAC_LIMBS + 1] # 0)

\* x * (k as f64), k a natural below 2^15.
F64MulNat(X, k) == Round53(Norm([i \in 1..Len(X) |-> X[i] * k]), FALSE)

F64Add(X, Y) == Round53(Norm([i \in 1..Len(X) |-> X[i] + Y[i]]), FALSE)

\* x - y for x >= y (two's complement addition, the carry out dropped).
F64Sub(X, Y) ==
    Round53(Norm([i \in 1..Len(X) |->
                    X[i] + (LIMB - 1 - Y[i]) + (IF i = 1 THEN 1 ELSE 0)]),
            FALSE)

\* x <= y
RECURSIVE F64LeqRec(_, _, _)
F64LeqRec(X, Y, i) ==
    IF i = 0 THEN TRUE
    ELSE IF X[i] # Y[i] THEN X[i] < Y[i]
    ELSE F64LeqRec(X, Y, i - 1)

F64Leq(X, Y) == F64LeqRec(X, Y, Len(X))

\* x as usize / x as u32: truncation towards zero.
F64Trunc(X) == X[ALL_LIMBS]

\* x as u8: truncation, saturating at 255.
F64AsU8(X) == IF X[ALL_LIMBS] > 255 THEN 255 ELSE X[ALL_LIMBS]

F64Ceil(X) ==
    IF \E i \in 1..FRAC_LIMBS : X[i] # 0 THEN X[ALL_LIMBS] + 1 ELSE X[ALL_LIMBS]

\* A negative double -x: the limbs of x followed by a sign limb.
F64Neg(X) == X \o <<1>>

\* progress.clamp(0.0, 1.0)
F64Clamp01(X) ==
    IF Len(X) > ALL_LIMBS THEN F64Zero
    ELSE IF F64Leq(X, F64One) THEN X ELSE F64One

(***************************************************************************)
(* utils.rs:162-169.                                                       *)
(***************************************************************************)
\* One channel: (from as f64 * (1.0 - progress_01) + to as f64 * progress_01) as u8,
\* with q01 = 1.0 - progress_01.
LerpChannelRounded(from, to, q01, p01) ==
    F64AsU8(F64Add(F64MulNat(q01, from), F64MulNat(p01, to)))

\* progress_01 is a multiple of 2^-15: q01, both products and their sum have
\* at most 24 significant bits, so that no operation rounds and the sum is
\* (from * (2^15 - m) + to * m) / 2^15 for progress_01 = m / 2^15.
ShortFraction(p01) == \A i \in 1..(FRAC_LIMBS - 1) : p01[i] = 0

LerpChannelExact(from, to, p01) ==
    LET m == p01[ALL_LIMBS] * LIMB + p01[FRAC_LIMBS]
    IN  (from * (LIMB - m) + to * m) \div LIMB

LerpChannel(from, to, q01, p01) ==
    IF ShortFraction(p01) THEN LerpChannelExact(from, to, p01)
    ELSE LerpChannelRounded(from, to, q01, p01)

lerp_color(from, to, progress) ==
    LET progress_01 == F64Clamp01(progress)
        q01 == F64Sub(F64One, progress_01)
    IN  Col(LerpChannel(ColR(from), ColR(to), q01, progress_01),
            LerpChannel(ColG(from), ColG(to), q01, progress_01),
            LerpChannel(ColB(from), ColB(to), q01, progress_01))

(***************************************************************************)
(* utils.rs:134-143.  A usize is held as four limbs of 16 bits, least      *)
(* significant first.  A usize subtraction whose result would be negative  *)
(* wraps modulo 2^64 in a build without overflow checks and panics in a    *)
(* build with them.                                                        *)
(***************************************************************************)
USIZE_LIMB == 65536
Usize(v) == <<v % USIZE_LIMB, v \div USIZE_LIMB, 0, 0>>

\* a + v modulo 2^64 for a usize a and an integer v with |v| < 2^16.
UsizeWrappingAdd(a, v) ==
    LET l1 == a[1] + v
        c1 == IF l1 < 0 THEN -1 ELSE l1 \div USIZE_LIMB
        l2 == a[2] + c1
        c2 == IF l2 < 0 THEN -1 ELSE l2 \div USIZE_LIMB
        l3 == a[3] + c2
        c3 == IF l3 < 0 THEN -1 ELSE l3 \div USIZE_LIMB
        l4 == a[4] + c3
    IN  <<l1 % USIZE_LIMB, l2 % USIZE_LIMB, l3 % USIZE_LIMB, l4 % USIZE_LIMB>>

Clamp(n, lo, hi) == IF n < lo THEN lo ELSE IF n > hi THEN hi ELSE n

\* The point returned for index n, or a panic; overflow_checks says which
\* build runs.
num2xy(n, overflow_checks) ==
    LET nc == Clamp(n, 0, TOTAL_LEDS)
        y  == nc \div ROW_LENGTH
        x  == nc - y * ROW_LENGTH
    IN  IF ROW_COUNT - y - 1 < 0 /\ overflow_checks THEN [panic |-> TRUE]
        ELSE [panic |-> FALSE, x |-> Usize(x),
              y |-> UsizeWrappingAdd(Usize(ROW_COUNT), 0 - y - 1)]

(***************************************************************************)
(* Frames.  A Frame is a Vec<Color>; frame position q (counted from 0 as   *)
(* in the source) is element q + 1 of the sequence.                        *)
(***************************************************************************)
At(frame, q) == frame[q + 1]
Put(frame, q, c) == [frame EXCEPT ![q + 1] = c]
Substrate(c) == [k \in 1..TOTAL_LEDS |-> c]

BLACK_SUBSTRATE == Substrate(BLACK)
DIM_GRAY_SUBSTRATE == Substrate(DIM_GRAY)

\* main.rs:107-127: the idle frame, every LED coloured by the fallback rule.
keyboard_target_substrate ==
    [k \in 1..TOTAL_LEDS |-> IF k - 1 <= 14 THEN TOP_ROW_COLOR ELSE MAIN_COLOR]

(***************************************************************************)
(* Configuration (notification_config.json, read at dbus.rs:42-58).        *)
(* NotificationSettings, utils.rs:24-29.                                   *)
(***************************************************************************)
CYAN == Col(0, 255, 255)
ORANGE == Col(255, 128, 0)

notification_map ==
    [Mail |-> [color |-> GREEN, important |-> TRUE,
               flash_on_notify |-> FALSE, flash_on_auto_close |-> CYAN],
     Chat |-> [color |-> ORANGE, important |-> FALSE,
               flash_on_notify |-> TRUE, flash_on_auto_close |-> BLACK],
     Alarm |-> [color |-> PURPLE, important |-> TRUE,
                flash_on_notify |-> FALSE, flash_on_auto_close |-> BLACK]]

\* progress_map of the configuration: source -> color, seeded with ratio 0.
progress_seed == [firefox |-> BLUE]

\* f64 progress ratios are written <<a, b>> for the double nearest to a/b,
\* in lowest terms, so that two ratios are equal doubles iff equal pairs.
ZeroRatio == <<0, 1>>
RatioF64(r) == F64Div(r[1], r[2])

notification_delivery_timeout == 2000

VARIABLES
    LAST_FRAME,              \* utils.rs:122
    BASE_FRAME,              \* utils.rs:123
    FRAME_Q,                 \* utils.rs:124
    SCREEN_LOCKED,           \* utils.rs:127
    FLASH_COLOR,             \* utils.rs:128
    ABOUT_TO_SHUTDOWN,       \* consts.rs:67
    progress_map,            \* dbus.rs:40
    pending_notification_q,  \* dbus.rs:36
    notification_q,          \* dbus.rs:37
    now,                     \* the clock read by get_timestamp, utils.rs:191
    dispatch,                \* what the running dbus handler has still to do
    tasks,                   \* the deferred tasks spawned by flash_color
    renderer,                \* state of the render task, main.rs:157-178
    hw,                      \* frames pushed to hardware, in order
    enq_log,                 \* frames pushed onto FRAME_Q, in order
    budget,                  \* dbus messages the dispatch loop may still take
    fade_log,                \* fade_time_ms of the calls of fade_into_frame
    probe                    \* a call of a pure function: its input, its result

vars == <<LAST_FRAME, BASE_FRAME, FRAME_Q, SCREEN_LOCKED, FLASH_COLOR,
          ABOUT_TO_SHUTDOWN, progress_map, pending_notification_q,
          notification_q, now, dispatch, tasks, renderer, hw, enq_log, budget,
          fade_log, probe>>

(***************************************************************************)
(* utils.rs:316-322.                                                       *)
(***************************************************************************)
\* A base frame that ignores the screen lock.
get_base_ignoring_lock == BASE_FRAME

get_base == IF SCREEN_LOCKED THEN DIM_GRAY_SUBSTRATE ELSE BASE_FRAME

(***************************************************************************)
(* composite, utils.rs:238-309: the frame it fades into, from the progress *)
(* map pm, the displayed notifications notifs, the flash colour and the    *)
(* base frame.                                                             *)
(***************************************************************************)
\* Entries the loop does not skip (utils.rs:260).
ActiveBars(pm) == {s \in DOMAIN pm : pm[s].ratio[1] > 0}

\* A scaling to the whole row instead of the indicator row.
scaled_progress_to_whole_row(progress) == F64MulNat(progress, ROW_LENGTH)

scaled_progress(progress) == F64MulNat(progress, TOP_ROW_LENGTH)
filled_leds(scaled) == F64Trunc(scaled)
last_led_progress(scaled) == F64Sub(scaled, F64FromNat(filled_leds(scaled)))

\* One progress entry as the loop body sees it (utils.rs:256-282): its
\* colour, the number of LEDs it fills and the colour it adds to the LED
\* after them.
Bar(entry, base) ==
    LET scaled == scaled_progress(RatioF64(entry.ratio))
        filled == filled_leds(scaled)
    IN  [color |-> entry.color,
         filled |-> filled,
         colored |-> F64Ceil(scaled),
         last |-> lerp_color(At(base, filled), entry.color,
                             last_led_progress(scaled))]

\* The entries the loop does not skip, each with its source.
Bars(pm, base) == {<<s, Bar(pm[s], base)>> : s \in ActiveBars(pm)}

\* top_bar[i] and top_bar[filled_leds] at utils.rs:278-282 with an index past
\* the ROW_LENGTH entries of top_bar, or new_frame[filled_leds] past the end
\* of the frame: the index panics.
top_bar_panics(pm, base) ==
    \E s \in ActiveBars(pm) :
        LET filled == filled_leds(scaled_progress(RatioF64(pm[s].ratio)))
        IN  filled >= ROW_LENGTH \/ filled >= Len(base)

\* What one entry adds to top_bar[i] (utils.rs:277-282).
BarContribution(bar, i) ==
    IF i < bar.filled THEN bar.color
    ELSE IF i = bar.filled THEN bar.last
    ELSE BLACK

\* Sum and maximum of a function f over the set S.
RECURSIVE SumOver(_, _)
SumOver(S, f) ==
    IF S = {} THEN 0
    ELSE LET s == CHOOSE x \in S : TRUE
         IN  f[s] + SumOver(S \ {s}, f)

RECURSIVE MaxOver(_, _)
MaxOver(S, f) ==
    IF S = {} THEN 0
    ELSE LET s == CHOOSE x \in S : TRUE
             m == MaxOver(S \ {s}, f)
         IN  IF f[s] > m THEN f[s] ELSE m

\* top_bar[i] after the loop over the progress map, a WideColor.
top_bar(bars, i) ==
    [r |-> SumOver(bars, [t \in bars |-> ColR(BarContribution(t[2], i))]),
     g |-> SumOver(bars, [t \in bars |-> ColG(BarContribution(t[2], i))]),
     b |-> SumOver(bars, [t \in bars |-> ColB(BarContribution(t[2], i))])]

\* A count that stops at the first bar.
num_bars_at_most_one(bars) == IF bars = {} THEN 0 ELSE 1

num_bars(bars) == Cardinality(bars)

colored_leds(bars) == MaxOver(bars, [t \in bars |-> t[2].colored])

\* utils.rs:297-301: (top_bar[i] / num_bars as f64) as u8, channel by channel.
Normalise(wide, n) ==
    Col(F64AsU8(F64Div(wide.r, n)), F64AsU8(F64Div(wide.g, n)),
        F64AsU8(F64Div(wide.b, n)))

\* utils.rs:296-302.  Normalise is evaluated once for every distinct
\* top_bar value.
NormalisedBar(pm, base) ==
    LET bars == Bars(pm, base)
        n == num_bars(bars)
        k == colored_leds(bars)
        tops == [i \in 0..(k - 1) |-> top_bar(bars, i)]
        normal == {<<t, Normalise(t, n)>> : t \in {tops[i] : i \in 0..(k - 1)}}
        Normal(i) == (CHOOSE t \in normal : t[1] = tops[i])[2]
    IN  [q \in 1..Len(base) |->
            IF q - 1 >= COL_OFFSET_START /\ q - 1 < COL_OFFSET_START + k
            THEN Normal(q - 1 - COL_OFFSET_START)
            ELSE base[q]]

\* A loop that paints the newest notification only.
PaintMarkers_last_only(frame, notifs, index) ==
    IF notifs = <<>> THEN frame
    ELSE Put(frame, index, notification_map[notifs[Len(notifs)].settings].color)

\* utils.rs:304-308: one marker per displayed notification, from index 3 on.
RECURSIVE PaintMarkers(_, _, _)
PaintMarkers(frame, notifs, index) ==
    IF notifs = <<>> THEN frame
    ELSE PaintMarkers(Put(frame, index, notification_map[Head(notifs).settings].color),
                      Tail(notifs), index + 1)

\* A flash that runs on to the end of the top row.
FlashBar_whole_row(base, flash) ==
    [q \in 1..Len(base) |->
        IF q - 1 >= COL_OFFSET_START /\ q - 1 < ROW_LENGTH
        THEN flash ELSE base[q]]

\* utils.rs:288-293.
FlashBar(base, flash) ==
    [q \in 1..Len(base) |->
        IF q - 1 >= COL_OFFSET_START /\ q - 1 < COL_OFFSET_START + TOP_ROW_LENGTH
        THEN flash ELSE base[q]]

CompositeFrame(pm, notifs, flash, base) ==
    IF flash # BLACK
    THEN FlashBar(base, flash)
    ELSE PaintMarkers(NormalisedBar(pm, base), notifs, COL_OFFSET_START + 2)

(***************************************************************************)
(* fade_into_frame, utils.rs:171-189: the i-th frame of a fade of          *)
(* `iterations` steps from frame_from to frame_to.  zip stops at the       *)
(* shorter of the two frames.                                              *)
(***************************************************************************)
Min(a, b) == IF a < b THEN a ELSE b

\* A division that rounds up.
fade_iterations_rounded_up(fade_time_ms) ==
    (fade_time_ms + FRAME_DURATION_MS - 1) \div FRAME_DURATION_MS

fade_iterations(fade_time_ms) == fade_time_ms \div FRAME_DURATION_MS

\* A fade whose last frame stops one step short of frame_to.
FadeFrame_short_of_target(frame_from, frame_to, i, iterations) ==
    LET p == F64Div(i, iterations + 1)
        len == Min(Len(frame_from), Len(frame_to))
    IN  [k \in 1..len |-> lerp_color(frame_from[k], frame_to[k], p)]

\* lerp_color is evaluated once for every distinct pair of colours.
FadeFrame(frame_from, frame_to, i, iterations) ==
    LET p == F64Div(i, iterations)
        len == Min(Len(frame_from), Len(frame_to))
        pairs == {<<frame_from[k], frame_to[k]>> : k \in 1..len}
        lerped == {<<pr, lerp_color(pr[1], pr[2], p)>> : pr \in pairs}
        Lerped(color_from, color_to) ==
            (CHOOSE t \in lerped : t[1] = <<color_from, color_to>>)[2]
    IN  [k \in 1..len |-> Lerped(frame_from[k], frame_to[k])]

(***************************************************************************)
(* Producers of frames.  Producer 0 is the dbus dispatch loop (its         *)
(* handlers run one at a time); producer p >= 1 is the p-th live deferred  *)
(* task spawned by flash_color.  What a producer has still to do is a      *)
(* sequence of operations; each action below executes the first one.       *)
(***************************************************************************)
OpStoreFlash(c) == [k |-> "store_flash", color |-> c]
OpComposite(d) == [k |-> "composite", d |-> d]
\* rd: the caller is composite, which holds its read lock on notification_q
\* until it returns (utils.rs:236).
OpFade(to, d, rd) == [k |-> "fade", to |-> to, d |-> d, rd |-> rd]
OpEnq(from, to, i, n, rd) ==
    [k |-> "enq", from |-> from, to |-> to, i |-> i, n |-> n, rd |-> rd]
OpPush(frame, op) ==
    [k |-> "push", frame |-> frame, from |-> op.from, to |-> op.to,
     i |-> op.i, n |-> op.n, rd |-> op.rd]
OpSpawn(hold) == [k |-> "spawn", hold |-> hold]
OpPushNotif(notif) == [k |-> "push_notif", notif |-> notif]
OpRemoveNotif(ind) == [k |-> "remove_notif", ind |-> ind]
OpCleanup == [k |-> "cleanup"]
\* The thread has panicked: it takes no further step.
OpPanicked == [k |-> "panicked"]

\* flash_color, utils.rs:199-227, as seen by its caller.
flash_color(color, hold) ==
    <<OpStoreFlash(color), OpComposite(300), OpSpawn(hold)>>

\* The deferred task of flash_color once its sleep is over, utils.rs:217-224.
flash_clear_task == <<OpStoreFlash(BLACK), OpComposite(300)>>

Producers == 0..Len(tasks)
Ops(p) == IF p = 0 THEN dispatch ELSE tasks[p]
HeadIs(p, kind) == Ops(p) # <<>> /\ Head(Ops(p)).k = kind

RemoveAt(seq, ind) ==
    [j \in 1..(Len(seq) - 1) |-> IF j < ind THEN seq[j] ELSE seq[j + 1]]

\* Producer p goes on with new_ops; a task that has nothing left is gone.
SetOps(p, new_ops, spawned) ==
    /\ dispatch' = IF p = 0 THEN new_ops ELSE dispatch
    /\ tasks' = (IF p = 0 THEN tasks
                 ELSE IF new_ops = <<>> THEN RemoveAt(tasks, p)
                 ELSE [tasks EXCEPT ![p] = new_ops]) \o spawned

\* A read guard that the Closed handler keeps from its search of
\* notification_q until it returns.
HoldsRead_since_search(p) ==
    /\ Ops(p) # <<>>
    /\ \/ Head(Ops(p)).k \in {"fade", "enq", "push"} /\ Head(Ops(p)).rd
       \/ Head(Ops(p)).k = "remove_notif"

\* Producer p is inside composite and so holds a read lock on notification_q.
HoldsRead(p) ==
    /\ Ops(p) # <<>>
    /\ Head(Ops(p)).k \in {"fade", "enq", "push"}
    /\ Head(Ops(p)).rd

\* notification_q.write() is granted once no reader is left.
CanWriteNotifications == \A p \in Producers : ~HoldsRead(p)

\* A store that a deferred task leaves out while a newer deferred task is
\* alive.
StoreFlash_unless_superseded(p) ==
    /\ HeadIs(p, "store_flash")
    /\ FLASH_COLOR' = IF p >= 1 /\ p < Len(tasks)
                      THEN FLASH_COLOR ELSE Head(Ops(p)).color
    /\ SetOps(p, Tail(Ops(p)), <<>>)
    /\ UNCHANGED <<LAST_FRAME, BASE_FRAME, FRAME_Q, SCREEN_LOCKED,
                   ABOUT_TO_SHUTDOWN, progress_map, pending_notification_q,
                   notification_q, now, renderer, hw, enq_log, budget,
                   fade_log, probe>>

\* FLASH_COLOR.store, utils.rs:206 and 221.
StoreFlash(p) ==
    /\ HeadIs(p, "store_flash")
    /\ FLASH_COLOR' = Head(Ops(p)).color
    /\ SetOps(p, Tail(Ops(p)), <<>>)
    /\ UNCHANGED <<LAST_FRAME, BASE_FRAME, FRAME_Q, SCREEN_LOCKED,
                   ABOUT_TO_SHUTDOWN, progress_map, pending_notification_q,
                   notification_q, now, renderer, hw, enq_log, budget,
                   fade_log, probe>>

\* new_frame[index] = ... at utils.rs:306 with index past the end of the
\* frame: the slice index panics.
composite_panics(notifs, flash, base) ==
    flash = BLACK /\ COL_OFFSET_START + 2 + Len(notifs) > Len(base)

\* composite up to its call of fade_into_frame, utils.rs:229-312.  A panic
\* unwinds the thread: the dispatch loop is dead from then on, a deferred
\* task is dropped by the runtime.
Composite(p) ==
    /\ HeadIs(p, "composite")
    /\ IF \/ top_bar_panics(progress_map, get_base)
          \/ composite_panics(notification_q, FLASH_COLOR, get_base)
       THEN SetOps(p, IF p = 0 THEN <<OpPanicked>> ELSE <<>>, <<>>)
       ELSE LET new_frame == CompositeFrame(progress_map, notification_q,
                                            FLASH_COLOR, get_base)
            IN  SetOps(p, <<OpFade(new_frame, Head(Ops(p)).d, TRUE)>>
                              \o Tail(Ops(p)),
                       <<>>)
    /\ UNCHANGED <<LAST_FRAME, BASE_FRAME, FRAME_Q, SCREEN_LOCKED, FLASH_COLOR,
                   ABOUT_TO_SHUTDOWN, progress_map, pending_notification_q,
                   notification_q, now, renderer, hw, enq_log, budget,
                   fade_log, probe>>

\* fade_into_frame up to its loop, utils.rs:171-175.
FadeBegin(p) ==
    /\ HeadIs(p, "fade")
    /\ LET op == Head(Ops(p))
           iterations == fade_iterations(op.d)
           frame_from == LAST_FRAME
       IN  SetOps(p,
                  (IF iterations >= 1
                   THEN <<OpEnq(frame_from, op.to, 1, iterations, op.rd)>>
                   ELSE <<>>) \o Tail(Ops(p)),
                  <<>>)
    /\ fade_log' = Append(fade_log, Head(Ops(p)).d)
    /\ UNCHANGED <<LAST_FRAME, BASE_FRAME, FRAME_Q, SCREEN_LOCKED, FLASH_COLOR,
                   ABOUT_TO_SHUTDOWN, progress_map, pending_notification_q,
                   notification_q, now, renderer, hw, enq_log, budget,
                   probe>>

\* One turn of the loop up to the write of LAST_FRAME, utils.rs:177-187 and
\* main.rs:308.
EnqWrite(p) ==
    /\ HeadIs(p, "enq")
    /\ LET op == Head(Ops(p))
           frame == FadeFrame(op.from, op.to, op.i, op.n)
       IN  /\ LAST_FRAME' = frame
           /\ SetOps(p, <<OpPush(frame, op)>> \o Tail(Ops(p)), <<>>)
    /\ UNCHANGED <<BASE_FRAME, FRAME_Q, SCREEN_LOCKED, FLASH_COLOR,
                   ABOUT_TO_SHUTDOWN, progress_map, pending_notification_q,
                   notification_q, now, renderer, hw, enq_log, budget,
                   fade_log, probe>>

\* The push onto the queue, main.rs:309, and the end of the turn.
EnqPush(p) ==
    /\ HeadIs(p, "push")
    /\ LET op == Head(Ops(p))
       IN  /\ FRAME_Q' = Append(FRAME_Q, op.frame)
           /\ enq_log' = Append(enq_log, op.frame)
           /\ SetOps(p,
                     (IF op.i < op.n
                      THEN <<OpEnq(op.from, op.to, op.i + 1, op.n, op.rd)>>
                      ELSE <<>>) \o Tail(Ops(p)),
                     <<>>)
    /\ UNCHANGED <<LAST_FRAME, BASE_FRAME, SCREEN_LOCKED, FLASH_COLOR,
                   ABOUT_TO_SHUTDOWN, progress_map, pending_notification_q,
                   notification_q, now, renderer, hw, budget, fade_log, probe>>

\* tokio::spawn of the deferred clear, utils.rs:210-225.
Spawn(p) ==
    /\ HeadIs(p, "spawn")
    /\ SetOps(p, Tail(Ops(p)), <<flash_clear_task>>)
    /\ UNCHANGED <<LAST_FRAME, BASE_FRAME, FRAME_Q, SCREEN_LOCKED, FLASH_COLOR,
                   ABOUT_TO_SHUTDOWN, progress_map, pending_notification_q,
                   notification_q, now, renderer, hw, enq_log, budget,
                   fade_log, probe>>

\* notification_q.write().unwrap().push(notif), dbus.rs:261.
PushNotif(p) ==
    /\ HeadIs(p, "push_notif")
    /\ CanWriteNotifications
    /\ notification_q' = Append(notification_q, Head(Ops(p)).notif)
    /\ SetOps(p, Tail(Ops(p)), <<>>)
    /\ UNCHANGED <<LAST_FRAME, BASE_FRAME, FRAME_Q, SCREEN_LOCKED, FLASH_COLOR,
                   ABOUT_TO_SHUTDOWN, progress_map, pending_notification_q,
                   now, renderer, hw, enq_log, budget, fade_log, probe>>

\* notification_q.write().unwrap().remove(ind_full), dbus.rs:273.
RemoveNotif(p) ==
    /\ HeadIs(p, "remove_notif")
    /\ CanWriteNotifications
    /\ notification_q' = RemoveAt(notification_q, Head(Ops(p)).ind)
    /\ SetOps(p, Tail(Ops(p)), <<>>)
    /\ UNCHANGED <<LAST_FRAME, BASE_FRAME, FRAME_Q, SCREEN_LOCKED, FLASH_COLOR,
                   ABOUT_TO_SHUTDOWN, progress_map, pending_notification_q,
                   now, renderer, hw, enq_log, budget, fade_log, probe>>

(***************************************************************************)
(* Bounds of the model and the inputs of the dbus handlers.                *)
(***************************************************************************)
MaxEvents == 2
MaxTasks == 1
MaxClockTicks == 1
ClockStep == 2500

\* get_timestamp, utils.rs:191-197: the clock never runs backwards.
ClockReadings == {t \in {j * ClockStep : j \in 0..MaxClockTicks} : t >= now}

\* Minimum progress delta that causes a recomposite, utils.rs:132.
PROGRESS_STEP == <<0, 1>>

\* (a - b).abs() > step on ratios.
AbsDeltaExceeds(a, b, step) ==
    LET num == a[1] * b[2] - b[1] * a[2]
        abs == IF num < 0 THEN 0 - num ELSE num
    IN  abs * step[2] > step[1] * a[2] * b[2]

CanDispatch == dispatch = <<>> /\ budget > 0

\* A message whose handler calls flash_color is taken while fewer than
\* MaxTasks deferred tasks are alive.
CanFlash == Len(tasks) < MaxTasks

(***************************************************************************)
(* com.canonical.Unity.LauncherEntry Update, dbus.rs:121-161.              *)
(***************************************************************************)
ProgressFlash(progress_visible, count) ==
    IF progress_visible
    THEN IF count > 1 THEN GREEN ELSE RED
    ELSE IF count > 1 THEN BLUE ELSE PURPLE

\* An update that is skipped unless the ratio moves by more than 1/2.
ProgressEntry_half_step(pm, source, progress) ==
    LET tuple == IF source \in DOMAIN pm THEN pm[source]
                 ELSE [color |-> WHITE, ratio |-> ZeroRatio]
    IN  [color |-> tuple.color,
         ratio |-> IF AbsDeltaExceeds(tuple.ratio, progress, <<1, 2>>)
                   THEN progress ELSE tuple.ratio]

\* The entry of `source` after entry().or_insert() and the update.
ProgressEntry(pm, source, progress) ==
    LET tuple == IF source \in DOMAIN pm THEN pm[source]
                 ELSE [color |-> WHITE, ratio |-> ZeroRatio]
    IN  [color |-> tuple.color,
         ratio |-> IF AbsDeltaExceeds(tuple.ratio, progress, PROGRESS_STEP)
                   THEN progress ELSE tuple.ratio]

\* The handler, taken while a flash it would start leaves at most max_tasks
\* deferred tasks alive.
ProgressUpdateWithin(max_tasks, source, progress, progress_visible, count) ==
    /\ CanDispatch
    /\ budget' = budget - 1
    /\ progress[1] = 0 => Len(tasks) < max_tasks
    /\ LET old == IF source \in DOMAIN progress_map
                  THEN progress_map[source].ratio ELSE ZeroRatio
           entry == ProgressEntry(progress_map, source, progress)
       IN  /\ progress_map' =
                [s \in DOMAIN progress_map \cup {source} |->
                    IF s = source THEN entry ELSE progress_map[s]]
           /\ dispatch' =
                IF progress[1] = 0
                THEN flash_color(ProgressFlash(progress_visible, count), 350)
                ELSE IF AbsDeltaExceeds(old, progress, PROGRESS_STEP)
                     THEN <<OpComposite(110)>>
                     ELSE <<>>
    /\ UNCHANGED <<LAST_FRAME, BASE_FRAME, FRAME_Q, SCREEN_LOCKED, FLASH_COLOR,
                   ABOUT_TO_SHUTDOWN, pending_notification_q, notification_q,
                   now, tasks, renderer, hw, enq_log, fade_log, probe>>

ProgressUpdate(source, progress, progress_visible, count) ==
    ProgressUpdateWithin(MaxTasks, source, progress, progress_visible, count)

(***************************************************************************)
(* org.freedesktop.ScreenSaver ActiveChanged, dbus.rs:175-183.             *)
(***************************************************************************)
ScreenLockChanged(locked) ==
    /\ CanDispatch
    /\ budget' = budget - 1
    /\ SCREEN_LOCKED' = locked
    /\ dispatch' = <<OpComposite(1500)>>
    /\ UNCHANGED <<LAST_FRAME, BASE_FRAME, FRAME_Q, FLASH_COLOR,
                   ABOUT_TO_SHUTDOWN, progress_map, pending_notification_q,
                   notification_q, now, tasks, renderer, hw, enq_log,
                   fade_log, probe>>

(***************************************************************************)
(* org.freedesktop.Notifications Notify, dbus.rs:194-213.                  *)
(***************************************************************************)
\* A handler that does not look the application up.
Notify_whatever_application(application, sender) ==
    /\ CanDispatch
    /\ budget' = budget - 1
    /\ IF TRUE
       THEN \E t \in ClockReadings :
              /\ now' = t
              /\ pending_notification_q' =
                    Append(pending_notification_q,
                           [id |-> 0, sender |-> sender, timestamp |-> t,
                            settings |-> application, serial |-> budget])
       ELSE UNCHANGED <<now, pending_notification_q>>
    /\ UNCHANGED <<LAST_FRAME, BASE_FRAME, FRAME_Q, SCREEN_LOCKED, FLASH_COLOR,
                   ABOUT_TO_SHUTDOWN, progress_map, notification_q, dispatch,
                   tasks, renderer, hw, enq_log, fade_log, probe>>

\* serial tells the Notification values apart, as the program's memory does:
\* it is the number of messages still to come when the entry was made, and
\* no handler reads it.
Notify(application, sender) ==
    /\ CanDispatch
    /\ budget' = budget - 1
    /\ IF application \in DOMAIN notification_map
       THEN \E t \in ClockReadings :
              /\ now' = t
              /\ pending_notification_q' =
                    Append(pending_notification_q,
                           [id |-> 0, sender |-> sender, timestamp |-> t,
                            settings |-> application, serial |-> budget])
       ELSE UNCHANGED <<now, pending_notification_q>>
    /\ UNCHANGED <<LAST_FRAME, BASE_FRAME, FRAME_Q, SCREEN_LOCKED, FLASH_COLOR,
                   ABOUT_TO_SHUTDOWN, progress_map, notification_q, dispatch,
                   tasks, renderer, hw, enq_log, fade_log, probe>>

(***************************************************************************)
(* org.freedesktop.Notifications NotificationClosed, dbus.rs:221-280.      *)
(***************************************************************************)
\* A search that takes the first entry whatever its id.
find_in_notif_q_first_entry(id, notif_q) == IF notif_q # <<>> THEN 1 ELSE 0

\* notif_q.iter().position(|notif| notif.id == id); 0 stands for None.
find_in_notif_q(id, notif_q) ==
    IF \E j \in 1..Len(notif_q) : notif_q[j].id = id
    THEN CHOOSE j \in 1..Len(notif_q) :
            /\ notif_q[j].id = id
            /\ \A h \in 1..(j - 1) : notif_q[h].id # id
    ELSE 0

\* A handler that discards on a close by the user only (reason 2).
ClosedPendingOps_user_close_only(notif, reason) ==
    LET settings == notification_map[notif.settings]
    IN  IF reason = 2 THEN <<>>
        ELSE (IF settings.flash_on_auto_close # BLACK
              THEN flash_color(settings.flash_on_auto_close, 500) ELSE <<>>)
             \o (IF settings.important
                 THEN <<OpPushNotif(notif), OpComposite(200)>> ELSE <<>>)

\* A handler that promotes whatever the settings say.
ClosedPendingOps_promoting_any(notif, reason) ==
    LET settings == notification_map[notif.settings]
    IN  IF reason # 1 THEN <<>>
        ELSE (IF settings.flash_on_auto_close # BLACK
              THEN flash_color(settings.flash_on_auto_close, 500) ELSE <<>>)
             \o <<OpPushNotif(notif), OpComposite(200)>>

\* A handler that flashes but never promotes.
ClosedPendingOps_without_promotion(notif, reason) ==
    LET settings == notification_map[notif.settings]
    IN  IF reason # 1 THEN <<>>
        ELSE IF settings.flash_on_auto_close # BLACK
             THEN flash_color(settings.flash_on_auto_close, 500) ELSE <<>>

\* What the handler does after it removed notif from the pending list.
ClosedPendingOps(notif, reason) ==
    LET settings == notification_map[notif.settings]
    IN  IF reason # 1 THEN <<>>
        ELSE (IF settings.flash_on_auto_close # BLACK
              THEN flash_color(settings.flash_on_auto_close, 500) ELSE <<>>)
             \o (IF settings.important
                 THEN <<OpPushNotif(notif), OpComposite(200)>> ELSE <<>>)

NotificationClosed(id, reason) ==
    /\ CanDispatch
    /\ budget' = budget - 1
    /\ LET ind == find_in_notif_q(id, pending_notification_q)
           ind_full == find_in_notif_q(id, notification_q)
       IN  IF ind # 0
           THEN /\ ClosedPendingOps(pending_notification_q[ind], reason) # <<>>
                   /\ Head(ClosedPendingOps(pending_notification_q[ind], reason)).k
                        = "store_flash"
                   => CanFlash
                /\ pending_notification_q' = RemoveAt(pending_notification_q, ind)
                /\ dispatch' = ClosedPendingOps(pending_notification_q[ind], reason)
           ELSE /\ UNCHANGED pending_notification_q
                /\ dispatch' = IF ind_full # 0
                               THEN <<OpRemoveNotif(ind_full), OpComposite(200)>>
                               ELSE <<>>
    /\ UNCHANGED <<LAST_FRAME, BASE_FRAME, FRAME_Q, SCREEN_LOCKED, FLASH_COLOR,
                   ABOUT_TO_SHUTDOWN, progress_map, notification_q, now, tasks,
                   renderer, hw, enq_log, fade_log, probe>>

(***************************************************************************)
(* Method return of the notification server, dbus.rs:286-315.              *)
(***************************************************************************)
\* A search that passes over the entries that have their id already.
find_last_untagged_by_sender(destination, notif_q) ==
    IF \E j \in 1..Len(notif_q) :
          notif_q[j].sender = destination /\ notif_q[j].id = 0
    THEN CHOOSE j \in 1..Len(notif_q) :
            /\ notif_q[j].sender = destination /\ notif_q[j].id = 0
            /\ \A h \in (j + 1)..Len(notif_q) :
                  ~(notif_q[h].sender = destination /\ notif_q[h].id = 0)
    ELSE 0

\* A search from the front of the list.
find_first_by_sender(destination, notif_q) ==
    IF \E j \in 1..Len(notif_q) : notif_q[j].sender = destination
    THEN CHOOSE j \in 1..Len(notif_q) :
            /\ notif_q[j].sender = destination
            /\ \A h \in 1..(j - 1) : notif_q[h].sender # destination
    ELSE 0

\* iter_mut().rev().find(|notif| notif.sender == destination); 0 for None.
find_last_by_sender(destination, notif_q) ==
    IF \E j \in 1..Len(notif_q) : notif_q[j].sender = destination
    THEN CHOOSE j \in 1..Len(notif_q) :
            /\ notif_q[j].sender = destination
            /\ \A h \in (j + 1)..Len(notif_q) : notif_q[h].sender # destination
    ELSE 0

\* dbus.rs:307-308 at clock reading t.
cleanup_broken(notif_q, t) ==
    LET deadline_time == t + notification_delivery_timeout
        keep(notif) == notif.timestamp <= deadline_time
    IN  SelectSeq(notif_q, keep)

NotificationDelivered(id, destination) ==
    /\ CanDispatch
    /\ budget' = budget - 1
    /\ LET j == find_last_by_sender(destination, pending_notification_q)
           with_id == IF j # 0
                      THEN [pending_notification_q EXCEPT ![j].id = id]
                      ELSE pending_notification_q
           flash == /\ j # 0
                    /\ notification_map[pending_notification_q[j].settings].flash_on_notify
       IN  IF flash
           THEN /\ CanFlash
                /\ pending_notification_q' = with_id
                /\ dispatch' =
                     flash_color(notification_map[pending_notification_q[j].settings].color, 900)
                     \o <<OpCleanup>>
                /\ UNCHANGED now
           ELSE /\ \E t \in ClockReadings :
                     /\ now' = t
                     /\ pending_notification_q' = cleanup_broken(with_id, t)
                /\ UNCHANGED dispatch
    /\ UNCHANGED <<LAST_FRAME, BASE_FRAME, FRAME_Q, SCREEN_LOCKED, FLASH_COLOR,
                   ABOUT_TO_SHUTDOWN, progress_map, notification_q, tasks,
                   renderer, hw, enq_log, fade_log, probe>>

\* The cleanup at the end of the handler when flash_color ran before it.
Cleanup(p) ==
    /\ HeadIs(p, "cleanup")
    /\ \E t \in ClockReadings :
          /\ now' = t
          /\ pending_notification_q' = cleanup_broken(pending_notification_q, t)
    /\ SetOps(p, Tail(Ops(p)), <<>>)
    /\ UNCHANGED <<LAST_FRAME, BASE_FRAME, FRAME_Q, SCREEN_LOCKED, FLASH_COLOR,
                   ABOUT_TO_SHUTDOWN, progress_map, notification_q, renderer,
                   hw, enq_log, budget, fade_log, probe>>

\* A method return whose body is not a u32, dbus.rs:310-312.
DeliveredOther ==
    /\ CanDispatch
    /\ budget' = budget - 1
    /\ UNCHANGED <<LAST_FRAME, BASE_FRAME, FRAME_Q, SCREEN_LOCKED, FLASH_COLOR,
                   ABOUT_TO_SHUTDOWN, progress_map, pending_notification_q,
                   notification_q, now, dispatch, tasks, renderer, hw, enq_log,
                   fade_log, probe>>

(***************************************************************************)
(* render_keyboard_frames, main.rs:317-336, one turn of its loop, and the  *)
(* end of the render task, main.rs:160-177.                                *)
(***************************************************************************)
\* A renderer that takes the newest frame of the queue instead of the oldest.
RenderFrame_newest_first ==
    /\ renderer = "running"
    /\ FRAME_Q # <<>>
    /\ hw' = Append(hw, FRAME_Q[Len(FRAME_Q)])
    /\ FRAME_Q' = SubSeq(FRAME_Q, 1, Len(FRAME_Q) - 1)
    /\ UNCHANGED <<LAST_FRAME, BASE_FRAME, SCREEN_LOCKED, FLASH_COLOR,
                   ABOUT_TO_SHUTDOWN, progress_map, pending_notification_q,
                   notification_q, now, dispatch, tasks, renderer, enq_log,
                   budget, fade_log, probe>>

\* pop gave a frame and update_zone_leds succeeded.
RenderFrame ==
    /\ renderer = "running"
    /\ FRAME_Q # <<>>
    /\ hw' = Append(hw, Head(FRAME_Q))
    /\ FRAME_Q' = Tail(FRAME_Q)
    /\ UNCHANGED <<LAST_FRAME, BASE_FRAME, SCREEN_LOCKED, FLASH_COLOR,
                   ABOUT_TO_SHUTDOWN, progress_map, pending_notification_q,
                   notification_q, now, dispatch, tasks, renderer, enq_log,
                   budget, fade_log, probe>>

\* pop gave a frame and update_zone_leds failed: `?` ends the loop.
RenderError ==
    /\ renderer = "running"
    /\ FRAME_Q # <<>>
    /\ FRAME_Q' = Tail(FRAME_Q)
    /\ renderer' = "failed"
    /\ UNCHANGED <<LAST_FRAME, BASE_FRAME, SCREEN_LOCKED, FLASH_COLOR,
                   ABOUT_TO_SHUTDOWN, progress_map, pending_notification_q,
                   notification_q, now, dispatch, tasks, hw, enq_log, budget,
                   fade_log, probe>>

\* The queue is empty.
RenderIdle ==
    /\ renderer = "running"
    /\ FRAME_Q = <<>>
    /\ renderer' = IF ABOUT_TO_SHUTDOWN > 0 THEN "returned" ELSE renderer
    /\ UNCHANGED <<LAST_FRAME, BASE_FRAME, FRAME_Q, SCREEN_LOCKED, FLASH_COLOR,
                   ABOUT_TO_SHUTDOWN, progress_map, pending_notification_q,
                   notification_q, now, dispatch, tasks, hw, enq_log, budget,
                   fade_log, probe>>

\* main.rs:169-172.
RenderTaskEnd ==
    /\ renderer = "returned"
    /\ renderer' = "ended"
    /\ ABOUT_TO_SHUTDOWN' = 2
    /\ UNCHANGED <<LAST_FRAME, BASE_FRAME, FRAME_Q, SCREEN_LOCKED, FLASH_COLOR,
                   progress_map, pending_notification_q, notification_q, now,
                   dispatch, tasks, hw, enq_log, budget, fade_log, probe>>

(***************************************************************************)
(* The engine once main has played its start-up animation and the renderer *)
(* has drained it (main.rs:102-104, 193-221): the last frame of the        *)
(* animation is the idle frame, which becomes BASE_FRAME.                  *)
(***************************************************************************)
InitIdle(events) ==
    /\ LAST_FRAME = keyboard_target_substrate
    /\ BASE_FRAME = keyboard_target_substrate
    /\ FRAME_Q = <<>>
    /\ SCREEN_LOCKED = FALSE
    /\ FLASH_COLOR = BLACK
    /\ ABOUT_TO_SHUTDOWN = 0
    /\ progress_map = [s \in DOMAIN progress_seed |->
                          [color |-> progress_seed[s], ratio |-> ZeroRatio]]
    /\ pending_notification_q = <<>>
    /\ notification_q = <<>>
    /\ now = 0
    /\ dispatch = <<>>
    /\ tasks = <<>>
    /\ renderer = "running"
    /\ hw = <<>>
    /\ enq_log = <<>>
    /\ budget = events
    /\ fade_log = <<>>
    /\ probe = <<>>

Init == InitIdle(MaxEvents)

\* The steps of flash_color, composite and fade_into_frame.
EngineStep ==
    \E p \in Producers :
        \/ StoreFlash(p)
        \/ Composite(p)
        \/ FadeBegin(p)
        \/ EnqWrite(p)
        \/ EnqPush(p)
        \/ Spawn(p)

\* The steps only the notification handlers take.
NotificationStep ==
    \E p \in Producers :
        \/ PushNotif(p)
        \/ RemoveNotif(p)
        \/ Cleanup(p)

RendererStep == RenderFrame \/ RenderError \/ RenderIdle

(***************************************************************************)
(* Spec: progress updates, the flashes they trigger, the deferred clears   *)
(* and the renderer, all running concurrently.                             *)
(***************************************************************************)
Sources == {"firefox", "dolphin"}
Ratios == {<<0, 1>>, <<1, 2>>}
Counts == {0, 2}

Next ==
    \/ \E source \in Sources, progress \in Ratios, count \in Counts :
          ProgressUpdate(source, progress, FALSE, count)
    \/ EngineStep
    \/ RendererStep

Spec == Init /\ [][Next]_vars

(***************************************************************************)
(* C1.  The frames pushed to hardware are at every moment a prefix of the  *)
(* frames pushed onto the Frame Queue, in the same order; hardware gets a  *)
(* new frame only by the renderer taking the oldest frame off a non-empty  *)
(* queue, so that nothing is pushed on a tick at which the queue is empty. *)
(***************************************************************************)
IsPrefix(short, long) ==
    /\ Len(short) <= Len(long)
    /\ \A k \in 1..Len(short) : short[k] = long[k]

C1_RenderedIsPrefixOfEnqueued ==
    /\ [](IsPrefix(hw, enq_log))
    /\ [][hw' # hw => /\ FRAME_Q # <<>>
                      /\ hw' = Append(hw, Head(FRAME_Q))
                      /\ FRAME_Q' = Tail(FRAME_Q)]_vars

\* Hardware has shown three frames, not all alike, the frames of two
\* producers are interleaved in the log, and more frames wait in the queue.
C1_Witness ==
    /\ Len(hw) >= 3
    /\ hw[1] # hw[3]
    /\ FRAME_Q # <<>>
    /\ tasks # <<>>
    /\ Len(enq_log) >= 6

(***************************************************************************)
(* C2.  Whenever a call of fade_into_frame with at least one iteration     *)
(* returns, whoever the caller is, LAST_FRAME equals the target of the     *)
(* call at every position.  A call returns with the push of its last       *)
(* frame.                                                                  *)
(***************************************************************************)
FadeReturns(p) ==
    /\ HeadIs(p, "push")
    /\ Head(Ops(p)).i = Head(Ops(p)).n
    /\ EnqPush(p)

C2_LastFrameIsTargetAtReturn ==
    [][\A p \in Producers :
          FadeReturns(p) => LAST_FRAME' = Head(Ops(p)).to]_vars

\* A fade of the dispatch loop is about to return while a deferred task is
\* in the middle of its own fade.
C2_Witness ==
    /\ HeadIs(0, "push")
    /\ Head(Ops(0)).i = Head(Ops(0)).n
    /\ \E p \in 1..Len(tasks) : HeadIs(p, "push")
    /\ LAST_FRAME # Head(Ops(0)).to

(***************************************************************************)
(* C9.  Once a progress update (source, p) is handled the ratio stored for *)
(* source is p, also when p is the ratio stored before; a source seen for  *)
(* the first time gets the colour white; no step removes an entry of the   *)
(* progress map or changes the colour of one.                              *)
(***************************************************************************)
C9_LedgerHoldsLastProgress ==
    /\ [][\A source \in Sources, progress \in Ratios, count \in Counts :
            ProgressUpdate(source, progress, FALSE, count) =>
                /\ source \in DOMAIN progress_map'
                /\ progress_map'[source].ratio = progress
                /\ source \notin DOMAIN progress_map =>
                      progress_map'[source].color = WHITE]_vars
    /\ [][\A s \in DOMAIN progress_map :
            /\ s \in DOMAIN progress_map'
            /\ progress_map'[s].color = progress_map[s].color]_vars

\* Both events are used up, "dolphin", not in the configuration, has a
\* white entry and the seeded "firefox" entry is still there.
C9_Witness ==
    /\ budget = 0
    /\ DOMAIN progress_map = {"firefox", "dolphin"}
    /\ progress_map["dolphin"].color = WHITE
    /\ progress_map["dolphin"].ratio = <<1, 2>>
    /\ enq_log # <<>>

(***************************************************************************)
(* SpecFade: one thread calls fade_into_frame once, with the fade time,    *)
(* the target and the last frame drawn from FadeTimes and FadeFrames, and  *)
(* nothing else runs.                                                      *)
(***************************************************************************)
FadeTimes == {0, 1, 74, 75, 76, 149, 150, 225, 300, 525}
FadeFrames == {BLACK_SUBSTRATE, DIM_GRAY_SUBSTRATE, keyboard_target_substrate}

InitFade ==
    /\ LAST_FRAME \in FadeFrames
    /\ BASE_FRAME = keyboard_target_substrate
    /\ FRAME_Q = <<>>
    /\ SCREEN_LOCKED = FALSE
    /\ FLASH_COLOR = BLACK
    /\ ABOUT_TO_SHUTDOWN = 0
    /\ progress_map = [s \in DOMAIN progress_seed |->
                          [color |-> progress_seed[s], ratio |-> ZeroRatio]]
    /\ pending_notification_q = <<>>
    /\ notification_q = <<>>
    /\ now = 0
    /\ \E frame_to \in FadeFrames, fade_time_ms \in FadeTimes :
          dispatch = <<OpFade(frame_to, fade_time_ms, FALSE)>>
    /\ tasks = <<>>
    /\ renderer = "running"
    /\ hw = <<>>
    /\ enq_log = <<>>
    /\ budget = 0
    /\ fade_log = <<>>
    /\ probe = <<>>

NextFade ==
    \/ FadeBegin(0)
    \/ EnqWrite(0)
    \/ EnqPush(0)

SpecFade == InitFade /\ [][NextFade]_vars

(***************************************************************************)
(* C3.  A call fade_into_frame(target, d) enqueues exactly floor(d / 75)   *)
(* frames: never more while it runs, exactly that many once it has         *)
(* returned.  With d < 75 it returns at once and leaves the Frame Queue    *)
(* and LAST_FRAME as they were.                                            *)
(***************************************************************************)
\* floor(d / 75): the n with 75 * n <= d < 75 * (n + 1).
FloorOfTicks(d) == CHOOSE n \in 0..d : 75 * n <= d /\ d < 75 * (n + 1)

FadeReturned == dispatch = <<>>

C3_FadeEnqueuesFloorOfTicks ==
    /\ [](fade_log # <<>> =>
            /\ Len(enq_log) <= FloorOfTicks(fade_log[1])
            /\ FadeReturned =>
                  /\ Len(enq_log) = FloorOfTicks(fade_log[1])
                  /\ FRAME_Q = enq_log)
    /\ [][HeadIs(0, "fade") /\ Head(dispatch).d < 75
            => /\ FadeReturned'
               /\ UNCHANGED <<FRAME_Q, LAST_FRAME, enq_log>>]_vars

\* A fade of 525 ms has returned with seven frames in the queue, and
\* LAST_FRAME has changed on the way.
C3_Witness ==
    /\ FadeReturned
    /\ fade_log = <<525>>
    /\ Len(FRAME_Q) = 7
    /\ FRAME_Q[1] # FRAME_Q[7]

(***************************************************************************)
(* SpecComposite: one thread calls composite once, with the progress map,  *)
(* the displayed notifications, the flash colour and the screen lock drawn *)
(* from the sets below, and nothing else runs.                             *)
(***************************************************************************)
CompositeColors == [firefox |-> BLUE, dolphin |-> RED, steam |-> WHITE]
CompositeRatios ==
    {<<-1, 2>>, <<0, 1>>, <<1, 3>>, <<1, 2>>, <<7, 8>>, <<1, 1>>, <<3, 2>>}

\* Every progress map over some of the three sources.
CompositeLedgers ==
    UNION {[D -> CompositeRatios] : D \in SUBSET DOMAIN CompositeColors}

\* A displayed list of k entries of the two important applications, and
\* the lengths to try: 16 entries are one more than the indicator row has
\* room for from position 3 on, 130 are one more than the frame has.
NotificationList(k) ==
    [j \in 1..k |-> [id |-> 6 + j, sender |-> ":1.50", timestamp |-> 0,
                     settings |-> IF j % 2 = 1 THEN "Mail" ELSE "Alarm",
                     serial |-> j]]

DisplayedCounts == {0, 1, 2, 16, 130}

CompositeNotifications == {NotificationList(k) : k \in DisplayedCounts}

InitComposite ==
    /\ LAST_FRAME = keyboard_target_substrate
    /\ BASE_FRAME = keyboard_target_substrate
    /\ FRAME_Q = <<>>
    /\ SCREEN_LOCKED \in BOOLEAN
    /\ FLASH_COLOR \in {BLACK, PURPLE}
    /\ ABOUT_TO_SHUTDOWN = 0
    /\ \E ratios \in CompositeLedgers :
          progress_map = [s \in DOMAIN ratios |->
                             [color |-> CompositeColors[s], ratio |-> ratios[s]]]
    /\ pending_notification_q = <<>>
    /\ notification_q \in CompositeNotifications
    /\ now = 0
    /\ dispatch = <<OpComposite(110)>>
    /\ tasks = <<>>
    /\ renderer = "running"
    /\ hw = <<>>
    /\ enq_log = <<>>
    /\ budget = 0
    /\ fade_log = <<>>
    /\ probe = <<>>

NextComposite ==
    \/ Composite(0)
    \/ FadeBegin(0)
    \/ EnqWrite(0)
    \/ EnqPush(0)

SpecComposite == InitComposite /\ [][NextComposite]_vars

\* composite has built its target frame and is about to fade into it.
CompositeTargetBuilt == HeadIs(0, "fade")
CompositeTarget == Head(dispatch).to

\* composite has returned.
CompositeReturned == dispatch = <<>>

(***************************************************************************)
(* C4.  When no progress entry has a ratio above 0, no notification is     *)
(* displayed and the flash colour is black, the target frame of composite  *)
(* is at every position the selected base frame: the dim-gray substrate if *)
(* the screen is locked, BASE_FRAME otherwise; the last frame is that      *)
(* frame once composite has returned.  In every case the entries with a    *)
(* ratio of 0 or less add neither colour nor to the count of bars: the     *)
(* target frame is the one composite builds without them.                  *)
(***************************************************************************)
NothingToShow ==
    /\ \A s \in DOMAIN progress_map : progress_map[s].ratio[1] <= 0
    /\ notification_q = <<>>
    /\ FLASH_COLOR = BLACK

SelectedBase ==
    IF SCREEN_LOCKED THEN [k \in 1..TOTAL_LEDS |-> DIM_GRAY] ELSE BASE_FRAME

\* The progress map without its entries of ratio 0 or less.
PositiveEntries(pm) == [s \in {t \in DOMAIN pm : pm[t].ratio[1] > 0} |-> pm[s]]

C4_NothingToShowGivesBase ==
    /\ NothingToShow =>
          /\ CompositeTargetBuilt => CompositeTarget = SelectedBase
          /\ CompositeReturned => LAST_FRAME = SelectedBase
    /\ CompositeTargetBuilt =>
          CompositeTarget = CompositeFrame(PositiveEntries(progress_map),
                                           notification_q, FLASH_COLOR,
                                           SelectedBase)

\* composite has built the dim-gray frame for a locked screen from a map
\* with a seeded entry at ratio 0 and an entry with a negative ratio.
C4_Witness ==
    /\ NothingToShow
    /\ CompositeTargetBuilt
    /\ SCREEN_LOCKED
    /\ \E s \in DOMAIN progress_map : progress_map[s].ratio[1] = 0
    /\ \E s \in DOMAIN progress_map : progress_map[s].ratio[1] < 0
    /\ CompositeTarget # BASE_FRAME

(***************************************************************************)
(* C5.  When the progress map has N >= 2 entries, all with the same ratio  *)
(* r in (0, 1], the flash colour is black and no notification is           *)
(* displayed, every LED all entries fill (frame positions COL_OFFSET_START *)
(* to COL_OFFSET_START + floor(17 * r) - 1) has in the target frame the    *)
(* channel-wise mean of the N colours, each channel sum / N truncated.     *)
(***************************************************************************)
\* floor(17 * r) for the double r, computed without rounding.
FloorOfScaled(progress) ==
    Norm([i \in 1..ALL_LIMBS |-> progress[i] * 17])[ALL_LIMBS]

MeanColor(pm) ==
    LET N == Cardinality(DOMAIN pm)
    IN  Col(SumOver(DOMAIN pm, [s \in DOMAIN pm |-> ColR(pm[s].color)]) \div N,
            SumOver(DOMAIN pm, [s \in DOMAIN pm |-> ColG(pm[s].color)]) \div N,
            SumOver(DOMAIN pm, [s \in DOMAIN pm |-> ColB(pm[s].color)]) \div N)

SameRatioBars ==
    /\ Cardinality(DOMAIN progress_map) >= 2
    /\ \E r \in CompositeRatios :
          /\ r[1] > 0
          /\ \A s \in DOMAIN progress_map : progress_map[s].ratio = r
    /\ notification_q = <<>>
    /\ FLASH_COLOR = BLACK

CommonRatio == progress_map[CHOOSE s \in DOMAIN progress_map : TRUE].ratio

C5_SameRatioBarsShowMean ==
    SameRatioBars /\ CompositeTargetBuilt =>
        \A q \in COL_OFFSET_START
                 ..(COL_OFFSET_START + FloorOfScaled(RatioF64(CommonRatio)) - 1) :
            At(CompositeTarget, q) = MeanColor(progress_map)

\* Red and blue at ratio 0.5: LEDs 1 to 8 are (127, 0, 127), LED 10 is not.
C5_Witness ==
    /\ CompositeTargetBuilt
    /\ SameRatioBars
    /\ DOMAIN progress_map = {"firefox", "dolphin"}
    /\ CommonRatio = <<1, 2>>
    /\ \A q \in 1..8 : At(CompositeTarget, q) = Col(127, 0, 127)
    /\ At(CompositeTarget, 10) # Col(127, 0, 127)

(***************************************************************************)
(* SpecNotify: the notification handlers of the dispatch loop, with the    *)
(* flashes and recomposites they start and the deferred clears.            *)
(***************************************************************************)
MaxNotifyEvents == 3

Applications == {"Mail", "Chat", "Unlisted"}
Senders == {":1.50", ":1.51"}
DeliveredIds == {7}
ClosedIds == {0, 7, 999}
Reasons == 1..4

InitNotify == InitIdle(MaxNotifyEvents)

NextNotify ==
    \/ \E application \in Applications, sender \in Senders :
          Notify(application, sender)
    \/ \E id \in DeliveredIds, destination \in Senders :
          NotificationDelivered(id, destination)
    \/ \E id \in ClosedIds, reason \in Reasons : NotificationClosed(id, reason)
    \/ EngineStep
    \/ NotificationStep

SpecNotify == InitNotify /\ [][NextNotify]_vars

(***************************************************************************)
(* C7.  NotificationClosed(id, reason), for any reason, with no entry of   *)
(* that id in the pending list or in the displayed list changes neither    *)
(* list, nor the progress map, the flash colour, LAST_FRAME or the Frame   *)
(* Queue, and the handler has returned: it starts no recomposite and       *)
(* enqueues nothing.                                                       *)
(***************************************************************************)
NoEntryHasId(id) ==
    /\ \A j \in 1..Len(pending_notification_q) : pending_notification_q[j].id # id
    /\ \A j \in 1..Len(notification_q) : notification_q[j].id # id

C7_ClosedUnknownIdChangesNothing ==
    [][\A id \in ClosedIds, reason \in Reasons :
          NoEntryHasId(id) /\ NotificationClosed(id, reason) =>
              /\ UNCHANGED <<pending_notification_q, notification_q,
                             progress_map, FLASH_COLOR, LAST_FRAME, FRAME_Q,
                             enq_log, tasks>>
              /\ dispatch' = <<>>]_vars

\* A notification is displayed, a deferred task is alive, and a close of
\* the unknown id 999 can be handled next.
C7_Witness ==
    /\ notification_q # <<>>
    /\ tasks # <<>>
    /\ NoEntryHasId(999)
    /\ ENABLED NotificationClosed(999, 2)

(***************************************************************************)
(* C8.  Notify for an application that is not in notification_map adds no  *)
(* pending entry and changes nothing else of the engine, and the dispatch  *)
(* loop is free for the next message; Notify for a configured application  *)
(* appends exactly one pending entry, with id 0, the sender of the message *)
(* and the settings of that application.                                   *)
(***************************************************************************)
C8_NotifyUnlistedIgnoredListedAppended ==
    [][\A application \in Applications, sender \in Senders :
          Notify(application, sender) =>
              IF application \in {"Mail", "Chat"}
              THEN /\ Len(pending_notification_q')
                         = Len(pending_notification_q) + 1
                   /\ SubSeq(pending_notification_q', 1,
                             Len(pending_notification_q))
                         = pending_notification_q
                   /\ LET new == pending_notification_q'[Len(pending_notification_q')]
                      IN  /\ new.id = 0
                          /\ new.sender = sender
                          /\ new.settings = application
                   /\ UNCHANGED <<notification_q, FLASH_COLOR, LAST_FRAME,
                                  FRAME_Q, enq_log, progress_map>>
                   /\ dispatch' = <<>>
              ELSE /\ UNCHANGED <<pending_notification_q, notification_q,
                                  FLASH_COLOR, LAST_FRAME, FRAME_Q, enq_log,
                                  progress_map, tasks, now>>
                   /\ dispatch' = <<>>]_vars

\* Two entries are pending, the newer one from "Chat" with id 0, and a
\* Notify of the unlisted application can be handled next.
C8_Witness ==
    /\ Len(pending_notification_q) = 2
    /\ pending_notification_q[1].settings = "Mail"
    /\ pending_notification_q[2].id = 0
    /\ pending_notification_q[2].settings = "Chat"
    /\ ENABLED Notify("Unlisted", ":1.50")

(***************************************************************************)
(* SpecLifecycle: the dispatch loop gets three messages about one          *)
(* notification of "Mail" (important, flash_on_auto_close not black): its  *)
(* Notify, the reply that delivers its id, and NotificationClosed with     *)
(* that id and reason 1.  budget tells how many of them are still to come. *)
(***************************************************************************)
LifecycleIds == {7, 9}

NextLifecycle ==
    \/ /\ budget = 3
       /\ \E sender \in Senders : Notify("Mail", sender)
    \/ /\ budget = 2
       /\ \E id \in LifecycleIds :
             NotificationDelivered(id, pending_notification_q[1].sender)
    \/ /\ budget = 1
       /\ NotificationClosed(pending_notification_q[1].id, 1)
    \/ EngineStep
    \/ \E p \in Producers : PushNotif(p)

InitLifecycle == InitIdle(3)

SpecLifecycle == InitLifecycle /\ [][NextLifecycle]_vars

(***************************************************************************)
(* C6.  Notify(app) ; Delivery(k, the sender of the Notify) ;              *)
(* NotificationClosed(k, 1) for an important application with a flash on   *)
(* auto close: after Notify the pending list is one entry longer and the   *)
(* new entry has id 0; after the delivery it has id k; after the close the *)
(* entry has left the pending list, the flash colour has been set to       *)
(* flash_on_auto_close, the entry is the new last entry of the displayed   *)
(* list and frames have been enqueued by the flash and the recomposite.    *)
(***************************************************************************)
HandlerReturned == dispatch = <<>>

\* Frame positions 1..17 of frame all have colour c.
IndicatorRowIs(frame, c) ==
    \A q \in COL_OFFSET_START..(COL_OFFSET_START + TOP_ROW_LENGTH - 1) :
        At(frame, q) = c

C6_NotifyDeliverCloseLifecycle ==
    /\ budget = 2 =>
          /\ Len(pending_notification_q) = 1
          /\ pending_notification_q[1].id = 0
          /\ pending_notification_q[1].settings = "Mail"
          /\ notification_q = <<>>
    /\ budget = 1 /\ HandlerReturned =>
          /\ Len(pending_notification_q) = 1
          /\ pending_notification_q[1].id \in LifecycleIds
          /\ notification_q = <<>>
          /\ enq_log = <<>>
    /\ budget = 0 => pending_notification_q = <<>>
    /\ budget = 0 /\ HandlerReturned =>
          /\ Len(notification_q) = 1
          /\ notification_q[1].id \in LifecycleIds
          /\ notification_q[1].settings = "Mail"
          /\ Len(enq_log) >= 6
          /\ IndicatorRowIs(enq_log[4], CYAN)
          /\ tasks # <<>> /\ Head(tasks[1]).k = "store_flash"
                => FLASH_COLOR = CYAN

\* The close has been handled: the notification is displayed with id 9,
\* the flash is on and its deferred clear has not run yet.
C6_Witness ==
    /\ budget = 0
    /\ HandlerReturned
    /\ Len(notification_q) = 1
    /\ notification_q[1].id = 9
    /\ notification_q[1].sender = ":1.51"
    /\ FLASH_COLOR = CYAN
    /\ tasks # <<>>
    /\ Len(enq_log) = 6

(***************************************************************************)
(* SpecGeometry: num2xy is called once with an index drawn from            *)
(* 0..MaxIndex, in a build with or without overflow checks.                *)
(***************************************************************************)
MaxIndex == 140

InitGeometry ==
    /\ LAST_FRAME = keyboard_target_substrate
    /\ BASE_FRAME = keyboard_target_substrate
    /\ FRAME_Q = <<>>
    /\ SCREEN_LOCKED = FALSE
    /\ FLASH_COLOR = BLACK
    /\ ABOUT_TO_SHUTDOWN = 0
    /\ progress_map = [s \in DOMAIN progress_seed |->
                          [color |-> progress_seed[s], ratio |-> ZeroRatio]]
    /\ pending_notification_q = <<>>
    /\ notification_q = <<>>
    /\ now = 0
    /\ dispatch = <<>>
    /\ tasks = <<>>
    /\ renderer = "running"
    /\ hw = <<>>
    /\ enq_log = <<>>
    /\ budget = 0
    /\ fade_log = <<>>
    /\ \E n \in 0..MaxIndex, overflow_checks \in BOOLEAN :
          probe = [n |-> n, overflow_checks |-> overflow_checks, called |-> FALSE]

Num2xyCall ==
    /\ probe.called = FALSE
    /\ probe' = [n |-> probe.n, overflow_checks |-> probe.overflow_checks,
                 called |-> TRUE,
                 point |-> num2xy(probe.n, probe.overflow_checks)]
    /\ UNCHANGED <<LAST_FRAME, BASE_FRAME, FRAME_Q, SCREEN_LOCKED, FLASH_COLOR,
                   ABOUT_TO_SHUTDOWN, progress_map, pending_notification_q,
                   notification_q, now, dispatch, tasks, renderer, hw, enq_log,
                   budget, fade_log>>

NextGeometry == Num2xyCall

SpecGeometry == InitGeometry /\ [][NextGeometry]_vars

(***************************************************************************)
(* C10.  num2xy returns for every index n, also for n >= TOTAL_LEDS, a     *)
(* point with 0 <= x < ROW_LENGTH and 0 <= y < ROW_COUNT; it never panics  *)
(* and no subtraction underflows.                                          *)
(***************************************************************************)
UsizeBelow(a, bound) == a[1] < bound /\ a[2] = 0 /\ a[3] = 0 /\ a[4] = 0

C10_Num2xyTotalAndInRange ==
    probe.called =>
        /\ ~probe.point.panic
        /\ UsizeBelow(probe.point.x, ROW_LENGTH)
        /\ UsizeBelow(probe.point.y, ROW_COUNT)

\* num2xy has been called with the first index past the last LED.
C10_Witness ==
    /\ probe.called
    /\ probe.n = TOTAL_LEDS

\* For every index below TOTAL_LEDS the point is in range and (x, y) names
\* the index: n = (ROW_COUNT - 1 - y) * ROW_LENGTH + x.
C10_InRangeBelowTotal ==
    probe.called /\ probe.n < TOTAL_LEDS =>
        /\ ~probe.point.panic
        /\ UsizeBelow(probe.point.x, ROW_LENGTH)
        /\ UsizeBelow(probe.point.y, ROW_COUNT)
        /\ probe.n = (ROW_COUNT - 1 - probe.point.y[1]) * ROW_LENGTH
                        + probe.point.x[1]

(***************************************************************************)
(* SpecLerp: lerp_color is called once, with the two colours drawn from    *)
(* LerpColors and the progress from LerpProgress (ratios num / den as the  *)
(* callers compute them: i / iterations in fade_into_frame, a distance     *)
(* factor that may be negative or above 1 in the start-up animation).      *)
(***************************************************************************)
LerpColors == {BLACK, WHITE, BLUE, DIM_GRAY, MAIN_COLOR, TOP_ROW_COLOR}
LerpProgress ==
    {<<-3, 4>>, <<-1, 20>>, <<0, 1>>, <<1, 20>>, <<3, 20>>, <<1, 4>>,
     <<1, 3>>, <<1, 2>>, <<19, 20>>, <<1, 1>>, <<21, 20>>, <<7, 1>>}

\* num as f64 / den as f64, num of either sign.
SignedRatioF64(r) ==
    IF r[1] < 0 THEN F64Neg(F64Div(0 - r[1], r[2])) ELSE F64Div(r[1], r[2])

InitLerp ==
    /\ LAST_FRAME = keyboard_target_substrate
    /\ BASE_FRAME = keyboard_target_substrate
    /\ FRAME_Q = <<>>
    /\ SCREEN_LOCKED = FALSE
    /\ FLASH_COLOR = BLACK
    /\ ABOUT_TO_SHUTDOWN = 0
    /\ progress_map = [s \in DOMAIN progress_seed |->
                          [color |-> progress_seed[s], ratio |-> ZeroRatio]]
    /\ pending_notification_q = <<>>
    /\ notification_q = <<>>
    /\ now = 0
    /\ dispatch = <<>>
    /\ tasks = <<>>
    /\ renderer = "running"
    /\ hw = <<>>
    /\ enq_log = <<>>
    /\ budget = 0
    /\ fade_log = <<>>
    /\ \E from \in LerpColors, to \in LerpColors, progress \in LerpProgress :
          probe = [from |-> from, to |-> to, progress |-> progress,
                   called |-> FALSE]

LerpColorCall ==
    /\ probe.called = FALSE
    /\ probe' = [from |-> probe.from, to |-> probe.to,
                 progress |-> probe.progress, called |-> TRUE,
                 color |-> lerp_color(probe.from, probe.to,
                                      SignedRatioF64(probe.progress))]
    /\ UNCHANGED <<LAST_FRAME, BASE_FRAME, FRAME_Q, SCREEN_LOCKED, FLASH_COLOR,
                   ABOUT_TO_SHUTDOWN, progress_map, pending_notification_q,
                   notification_q, now, dispatch, tasks, renderer, hw, enq_log,
                   budget, fade_log>>

SpecLerp == InitLerp /\ [][LerpColorCall]_vars

(***************************************************************************)
(* C11.  lerp_color(from, to, t) returns from for every t <= 0, to for     *)
(* every t >= 1, and c for every t when from = to = c.                     *)
(***************************************************************************)
C11_LerpEndpointsAndSameColor ==
    probe.called =>
        /\ probe.progress[1] <= 0 => probe.color = probe.from
        /\ probe.progress[1] >= probe.progress[2] => probe.color = probe.to
        /\ probe.from = probe.to => probe.color = probe.from

\* lerp_color has been called with TOP_ROW_COLOR twice and t = 1 / 20, the
\* first step of the 1500 ms fade of a screen-lock change.
C11_Witness ==
    /\ probe.called
    /\ probe.from = TOP_ROW_COLOR
    /\ probe.to = TOP_ROW_COLOR
    /\ probe.progress = <<1, 20>>

\* The two endpoint laws alone, and the same-colour law for the progress
\* values that are multiples of 1 / 4.
C11_EndpointsAndDyadic ==
    probe.called =>
        /\ probe.progress[1] <= 0 => probe.color = probe.from
        /\ probe.progress[1] >= probe.progress[2] => probe.color = probe.to
        /\ probe.from = probe.to /\ probe.progress[2] \in {1, 2, 4}
              => probe.color = probe.from

(***************************************************************************)
(* C12.  When composite runs while the flash colour is not black, the      *)
(* target frame has the flash colour at every LED of the indicator row     *)
(* (frame positions 1 to 17) and the colour of the selected base frame at  *)
(* every other position, whatever the progress map and the displayed       *)
(* notifications are: no progress colour and no marker shows.              *)
(***************************************************************************)
C12_FlashOverridesIndicatorRow ==
    FLASH_COLOR # BLACK /\ CompositeTargetBuilt =>
        /\ Len(CompositeTarget) = TOTAL_LEDS
        /\ \A q \in 0..(TOTAL_LEDS - 1) :
              At(CompositeTarget, q) =
                 IF q >= COL_OFFSET_START
                    /\ q <= COL_OFFSET_START + TOP_ROW_LENGTH - 1
                 THEN FLASH_COLOR
                 ELSE At(SelectedBase, q)

\* composite has built the target for a purple flash while two bars are
\* active and a notification is displayed.
C12_Witness ==
    /\ CompositeTargetBuilt
    /\ FLASH_COLOR = PURPLE
    /\ Cardinality(ActiveBars(progress_map)) >= 2
    /\ notification_q # <<>>
    /\ At(CompositeTarget, 3) = PURPLE
    /\ At(CompositeTarget, 18) = MAIN_COLOR

(***************************************************************************)
(* C13.  In fade_into_frame the i-th frame pushed (1 <= i <= iterations)   *)
(* has at every position lerp(S[pos], target[pos], i / iterations), S      *)
(* being LAST_FRAME as it was when the call started, whatever other        *)
(* producers have written since; and right after each push LAST_FRAME is   *)
(* the frame just pushed.  Stated for Spec, where the dispatch loop and    *)
(* a deferred task fade concurrently.                                      *)
(***************************************************************************)
OpsAfter(p) == IF p = 0 THEN dispatch' ELSE tasks'[p]

\* The i-th of n frames from the snapshot S to target, position by position.
LerpedFrame(S, target, i, n) ==
    [k \in 1..Len(target) |-> lerp_color(S[k], target[k], F64Div(i, n))]

\* The frames are computed from the snapshot taken at the start of the call.
C13_FramesLerpFromSnapshot ==
    [][\A p \in Producers :
          /\ FadeBegin(p) /\ Head(Ops(p)).d >= FRAME_DURATION_MS =>
                /\ Head(OpsAfter(p)).k = "enq"
                /\ Head(OpsAfter(p)).from = LAST_FRAME
                /\ Head(OpsAfter(p)).to = Head(Ops(p)).to
                /\ Head(OpsAfter(p)).i = 1
                /\ Head(OpsAfter(p)).n = FloorOfTicks(Head(Ops(p)).d)
          /\ EnqWrite(p) =>
                /\ LAST_FRAME' = LerpedFrame(Head(Ops(p)).from, Head(Ops(p)).to,
                                             Head(Ops(p)).i, Head(Ops(p)).n)
                /\ Head(OpsAfter(p)).k = "push"
                /\ Head(OpsAfter(p)).frame = LAST_FRAME'
                /\ Head(OpsAfter(p)).from = Head(Ops(p)).from
                /\ Head(OpsAfter(p)).i = Head(Ops(p)).i
          /\ EnqPush(p) =>
                /\ enq_log' = Append(enq_log, Head(Ops(p)).frame)
                /\ Head(Ops(p)).i < Head(Ops(p)).n =>
                      /\ Head(OpsAfter(p)).k = "enq"
                      /\ Head(OpsAfter(p)).from = Head(Ops(p)).from
                      /\ Head(OpsAfter(p)).to = Head(Ops(p)).to
                      /\ Head(OpsAfter(p)).i = Head(Ops(p)).i + 1]_vars

C13_FadeFramesAndLastFrame ==
    /\ C13_FramesLerpFromSnapshot
    /\ [][\A p \in Producers :
             EnqPush(p) => LAST_FRAME' = enq_log'[Len(enq_log')]]_vars

\* The dispatch loop is between its write of LAST_FRAME and its push while
\* LAST_FRAME already holds a frame of the deferred task.
C13_Witness ==
    /\ HeadIs(0, "push")
    /\ LAST_FRAME # Head(dispatch).frame
    /\ tasks # <<>>

(***************************************************************************)
(* C14.  With a black flash colour and no displayed notification, every    *)
(* indicator LED that some active entries fill completely, and that no     *)
(* entry fills partially, shows the channel-wise mean of the colours of    *)
(* the entries that fill it: an LED that one entry fills alone shows that  *)
(* entry's colour, whatever the number of active entries is.               *)
(***************************************************************************)
\* The active entries that fill LED i of the bar (i counted from 0).
FillingEntries(i) ==
    {s \in ActiveBars(progress_map) :
        i < FloorOfScaled(RatioF64(progress_map[s].ratio))}

\* Some active entry has its partially filled LED at i.
PartlyFilled(i) ==
    \E s \in ActiveBars(progress_map) :
        i = FloorOfScaled(RatioF64(progress_map[s].ratio))

C14_MeanOverContributingEntries ==
    FLASH_COLOR = BLACK /\ notification_q = <<>> /\ CompositeTargetBuilt =>
        \A i \in 0..(TOP_ROW_LENGTH - 1) :
            FillingEntries(i) # {} /\ ~PartlyFilled(i) =>
                At(CompositeTarget, COL_OFFSET_START + i) =
                    MeanColor([s \in FillingEntries(i) |-> progress_map[s]])

\* composite has built the target for red at 1/3 and blue at 1/2: the LED
\* at frame position 7 is filled by the blue entry alone.
C14_Witness ==
    /\ CompositeTargetBuilt
    /\ FLASH_COLOR = BLACK
    /\ notification_q = <<>>
    /\ DOMAIN progress_map = {"firefox", "dolphin"}
    /\ progress_map["dolphin"].ratio = <<1, 3>>
    /\ progress_map["firefox"].ratio = <<1, 2>>
    /\ FillingEntries(6) = {"firefox"}
    /\ At(CompositeTarget, 7) = Col(0, 0, 127)

(***************************************************************************)
(* C15.  With a black flash colour and k displayed notifications the       *)
(* target frame of composite has at frame position COL_OFFSET_START + 2 + j *)
(* the settings colour of the j-th displayed notification (j = 0..k-1, in  *)
(* list order), over whatever the progress bars or the base frame had      *)
(* there, and differs from the frame without markers at no other position: *)
(* one LED for each notification.                                          *)
(***************************************************************************)
MarkerPosition(j) == COL_OFFSET_START + 2 + j

C15_MarkersInListOrder ==
    FLASH_COLOR = BLACK /\ CompositeTargetBuilt =>
        LET k == Len(notification_q)
            unmarked == CompositeFrame(progress_map, <<>>, BLACK, SelectedBase)
        IN  /\ \A j \in 0..(k - 1) :
                  At(CompositeTarget, MarkerPosition(j))
                     = notification_map[notification_q[j + 1].settings].color
            /\ \A q \in 0..(TOTAL_LEDS - 1) :
                  q < MarkerPosition(0) \/ q >= MarkerPosition(k) =>
                      At(CompositeTarget, q) = At(unmarked, q)

\* Two notifications are displayed over two full progress bars: position 3
\* has the colour of the first, position 4 that of the second, position 5
\* the mean of the bars.
C15_Witness ==
    /\ CompositeTargetBuilt
    /\ FLASH_COLOR = BLACK
    /\ Len(notification_q) = 2
    /\ DOMAIN progress_map = {"firefox", "dolphin"}
    /\ \A s \in DOMAIN progress_map : progress_map[s].ratio = <<1, 1>>
    /\ At(CompositeTarget, 3) = GREEN
    /\ At(CompositeTarget, 4) = PURPLE
    /\ At(CompositeTarget, 5) = Col(127, 0, 127)

(***************************************************************************)
(* C16.  composite completes for any number of displayed notifications:    *)
(* it does not panic, it writes nothing past the end of the frame, and it  *)
(* leaves every position outside the indicator row (frame positions 1 to   *)
(* 17) as the base frame has it, the notifications that find no room in    *)
(* the row being dropped.                                                  *)
(***************************************************************************)
CompositePanicked == HeadIs(0, "panicked")

C16_MarkersStayInIndicatorRow ==
    /\ ~CompositePanicked
    /\ FLASH_COLOR = BLACK /\ CompositeTargetBuilt =>
          /\ Len(CompositeTarget) = TOTAL_LEDS
          /\ \A q \in 0..(TOTAL_LEDS - 1) :
                q < COL_OFFSET_START \/ q >= COL_OFFSET_START + TOP_ROW_LENGTH
                   => At(CompositeTarget, q) = At(SelectedBase, q)

\* composite has built its target with sixteen notifications displayed: the
\* sixteenth marker is at frame position 18, past the indicator row.
C16_Witness ==
    /\ CompositeTargetBuilt
    /\ FLASH_COLOR = BLACK
    /\ Len(notification_q) = 16
    /\ ~SCREEN_LOCKED
    /\ At(CompositeTarget, 18) = PURPLE
    /\ At(BASE_FRAME, 18) = MAIN_COLOR

\* composite has panicked on the marker of the 130th notification.
C16_PanicReached ==
    /\ CompositePanicked
    /\ Len(notification_q) = 130

(***************************************************************************)
(* C17.  NotificationClosed(id, reason) with reason 2, 3 or 4 and a        *)
(* pending entry of that id removes the first such entry from the pending  *)
(* list and does nothing else, whatever the settings of the entry are: the *)
(* displayed list, the flash colour, LAST_FRAME and the Frame Queue stay   *)
(* as they are, no task is spawned and the handler has returned.           *)
(***************************************************************************)
SomePendingHasId(id) ==
    \E j \in 1..Len(pending_notification_q) : pending_notification_q[j].id = id

\* The pending list after the step is the list before it without entry j.
PendingLostEntry(j) ==
    /\ Len(pending_notification_q') = Len(pending_notification_q) - 1
    /\ \A h \in 1..(j - 1) :
          pending_notification_q'[h] = pending_notification_q[h]
    /\ \A h \in j..Len(pending_notification_q') :
          pending_notification_q'[h] = pending_notification_q[h + 1]

C17_ClosedPendingNotExpiredOnlyDiscards ==
    [][\A id \in ClosedIds, reason \in {2, 3, 4} :
          SomePendingHasId(id) /\ NotificationClosed(id, reason) =>
              /\ \E j \in 1..Len(pending_notification_q) :
                    /\ pending_notification_q[j].id = id
                    /\ \A h \in 1..(j - 1) : pending_notification_q[h].id # id
                    /\ PendingLostEntry(j)
              /\ UNCHANGED <<notification_q, FLASH_COLOR, LAST_FRAME, FRAME_Q,
                             enq_log, fade_log, tasks, progress_map>>
              /\ dispatch' = <<>>]_vars

\* An entry of "Mail" (important, flash on auto close) is pending with id 7
\* and a close of id 7 by the user can be handled next.
C17_Witness ==
    /\ \E j \in 1..Len(pending_notification_q) :
          /\ pending_notification_q[j].id = 7
          /\ pending_notification_q[j].settings = "Mail"
    /\ ENABLED NotificationClosed(7, 2)

(***************************************************************************)
(* C18.  A delivery reply (id, destination) gives id to the last pending   *)
(* entry whose sender is destination and changes no other entry; if the    *)
(* settings of that entry have flash_on_notify the handler goes on to      *)
(* store the settings colour as flash colour, otherwise it starts no       *)
(* flash.  With no pending entry of that sender nothing changes and no     *)
(* flash is started.                                                       *)
(***************************************************************************)
PendingFrom(destination) ==
    {j \in 1..Len(pending_notification_q) :
        pending_notification_q[j].sender = destination}

C18_DeliveryTagsLastEntryOfSender ==
    /\ [][\A id \in DeliveredIds, destination \in Senders :
            NotificationDelivered(id, destination) =>
              IF PendingFrom(destination) = {}
              THEN /\ UNCHANGED <<pending_notification_q, FLASH_COLOR, tasks>>
                   /\ dispatch' = <<>>
              ELSE LET j == CHOOSE m \in PendingFrom(destination) :
                               \A h \in PendingFrom(destination) : h <= m
                       old == pending_notification_q[j]
                       settings == notification_map[old.settings]
                   IN  /\ Len(pending_notification_q')
                             = Len(pending_notification_q)
                       /\ \A h \in 1..Len(pending_notification_q) :
                             h # j => pending_notification_q'[h]
                                         = pending_notification_q[h]
                       /\ pending_notification_q'[j] =
                             [id |-> id, sender |-> old.sender,
                              timestamp |-> old.timestamp,
                              settings |-> old.settings, serial |-> old.serial]
                       /\ UNCHANGED <<FLASH_COLOR, tasks>>
                       /\ IF settings.flash_on_notify
                          THEN /\ dispatch' # <<>>
                               /\ Head(dispatch').k = "store_flash"
                               /\ Head(dispatch').color = settings.color
                          ELSE dispatch' = <<>>]_vars
    /\ [][StoreFlash(0) => FLASH_COLOR' = Head(dispatch).color]_vars

\* Two entries of one sender are pending; the reply has tagged the newer
\* one and left the older one with id 0.
C18_Witness ==
    /\ Len(pending_notification_q) = 2
    /\ pending_notification_q[1].sender = pending_notification_q[2].sender
    /\ pending_notification_q[1].id = 0
    /\ pending_notification_q[2].id = 7
    /\ pending_notification_q[2].settings = "Chat"
    /\ FLASH_COLOR = ORANGE

(***************************************************************************)
(* C19.  Once a delivery reply has been handled, at clock reading t, no    *)
(* pending entry is left whose timestamp is more than                      *)
(* notification_delivery_timeout before t, and every younger entry has     *)
(* been kept.                                                              *)
(***************************************************************************)
\* The step ends the handling of a delivery reply: the handler without a
\* flash, or the cleanup that follows the flash.
DeliveryHandled ==
    \/ \E id \in DeliveredIds, destination \in Senders :
          NotificationDelivered(id, destination) /\ dispatch' = <<>>
    \/ Cleanup(0)

YoungAt(notif_q, t) ==
    LET young(notif) == t - notif.timestamp <= notification_delivery_timeout
    IN  SelectSeq(notif_q, young)

C19_DeliveryPurgesOldPending ==
    [][DeliveryHandled =>
          /\ \A j \in 1..Len(pending_notification_q') :
                now' - pending_notification_q'[j].timestamp
                   <= notification_delivery_timeout
          /\ Len(YoungAt(pending_notification_q', now'))
                = Len(YoungAt(pending_notification_q, now'))]_vars

\* A reply has been handled (an entry has its id) at a clock reading more
\* than the timeout after an entry was made that is still pending.
C19_Witness ==
    /\ dispatch = <<>>
    /\ \E j \in 1..Len(pending_notification_q) :
          pending_notification_q[j].id = 7
    /\ \E j \in 1..Len(pending_notification_q) :
          /\ pending_notification_q[j].id = 0
          /\ now - pending_notification_q[j].timestamp
                > notification_delivery_timeout

\* The cleanup removes nothing at all.
C19_CleanupKeepsEveryEntry ==
    [][DeliveryHandled =>
          Len(pending_notification_q') = Len(pending_notification_q)]_vars

(***************************************************************************)
(* C20.  Every entry of the displayed list has settings.important = true   *)
(* and came there from the pending list through a NotificationClosed with  *)
(* reason 1; no notification is in both lists at once, and a notification  *)
(* that has left the displayed list, or has been discarded from the        *)
(* pending list, is in neither list ever after.  Notifications are told    *)
(* apart by their serial.  Entries enter the pending list only new, with a *)
(* serial no entry had before, and the displayed list only from the        *)
(* promotions in progress, which hold entries the Closed handler took out  *)
(* of the pending list for reason 1; so what has left both lists and is    *)
(* not being promoted cannot come back.                                    *)
(***************************************************************************)
Serials(notif_q) == {notif_q[j].serial : j \in 1..Len(notif_q)}

\* The entries the Closed handler has removed from the pending list and is
\* about to push onto the displayed list.
BeingPromoted(ops) ==
    {ops[j].notif.serial : j \in {h \in 1..Len(ops) : ops[h].k = "push_notif"}}

C20_DisplayedOnlyByExpiryOfImportant ==
    /\ [](/\ \A j \in 1..Len(notification_q) :
               notification_map[notification_q[j].settings].important
          /\ Serials(pending_notification_q) \cap Serials(notification_q) = {}
          /\ BeingPromoted(dispatch) \cap
                (Serials(pending_notification_q) \cup Serials(notification_q))
                = {}
          /\ Cardinality(Serials(pending_notification_q))
                = Len(pending_notification_q)
          /\ Cardinality(Serials(notification_q)) = Len(notification_q)
          /\ \A s \in Serials(pending_notification_q)
                         \cup Serials(notification_q)
                         \cup BeingPromoted(dispatch) : s > budget
          /\ \A p \in 1..Len(tasks) : BeingPromoted(tasks[p]) = {})
    /\ [][/\ Serials(pending_notification_q')
                \subseteq Serials(pending_notification_q) \cup {budget}
          /\ Serials(notification_q')
                \subseteq Serials(notification_q) \cup BeingPromoted(dispatch)
          /\ BeingPromoted(dispatch')
                \subseteq BeingPromoted(dispatch)
                             \cup Serials(pending_notification_q)
          /\ BeingPromoted(dispatch') \ BeingPromoted(dispatch) # {} =>
                \E id \in ClosedIds : NotificationClosed(id, 1)]_vars

\* A notification was promoted and then closed: both lists are empty again
\* after the two recomposites of 200 ms.
C20_Witness ==
    /\ budget = 0
    /\ dispatch = <<>>
    /\ pending_notification_q = <<>>
    /\ notification_q = <<>>
    /\ LET short(d) == d = 200
       IN  Len(SelectSeq(fade_log, short)) = 2

(***************************************************************************)
(* C21.  flash_color stores its colour as flash colour and goes on to      *)
(* composite before it spawns the deferred task and returns; the task      *)
(* stores black and composites again; hence whenever no handler and no     *)
(* deferred task is running,                                               *)
(* the flash colour is black and the indicator row of LAST_FRAME shows no  *)
(* flash colour where the frame composed without a flash has another       *)
(* colour.                                                                 *)
(***************************************************************************)
Quiescent == dispatch = <<>> /\ tasks = <<>>

\* The colours the progress handler flashes.
ProgressFlashColors == {GREEN, RED, BLUE, PURPLE}

C21_FlashSteps ==
    [][\A p \in Producers :
          /\ StoreFlash(p) =>
                /\ FLASH_COLOR' = Head(Ops(p)).color
                /\ Head(OpsAfter(p)).k = "composite"
          /\ Spawn(p) =>
                /\ Len(tasks') = Len(tasks) + 1
                /\ tasks'[Len(tasks')][1].k = "store_flash"
                /\ tasks'[Len(tasks')][1].color = BLACK
                /\ tasks'[Len(tasks')][2].k = "composite"]_vars

C21_QuiescentShowsNoFlash ==
    Quiescent =>
        /\ FLASH_COLOR = BLACK
        /\ \A q \in COL_OFFSET_START..(COL_OFFSET_START + TOP_ROW_LENGTH - 1) :
              At(LAST_FRAME, q) \in ProgressFlashColors =>
                  At(LAST_FRAME, q)
                     = At(CompositeFrame(progress_map, notification_q, BLACK,
                                         get_base), q)

C21_FlashIsClearedInTheEnd ==
    /\ C21_FlashSteps
    /\ []C21_QuiescentShowsNoFlash

\* Every handler and every deferred task has finished, the flash colour is
\* black again, and the indicator row of LAST_FRAME is purple all over.
C21_Witness ==
    /\ Quiescent
    /\ budget = 0
    /\ FLASH_COLOR = BLACK
    /\ IndicatorRowIs(LAST_FRAME, PURPLE)

(***************************************************************************)
(* SpecFlash: progress updates that all flash, so close together that the  *)
(* deferred clear of one flash is still asleep when the next flash starts. *)
(***************************************************************************)
MaxFlashEvents == 2
MaxFlashTasks == 2

\* The last update carries a count of 2 and flashes blue, the ones before it
\* carry none and flash purple.
FlashCount == IF budget = 1 THEN 2 ELSE 0

NextFlash ==
    \/ ProgressUpdateWithin(MaxFlashTasks, "firefox", <<0, 1>>, FALSE,
                            FlashCount)
    \/ EngineStep

SpecFlash == InitIdle(MaxFlashEvents) /\ [][NextFlash]_vars

\* Producer p takes its FLASH_COLOR.store in this step.
StoreBy(p) ==
    /\ HeadIs(p, "store_flash")
    /\ IF p = 0 THEN dispatch' = Tail(dispatch)
       ELSE /\ tasks # tasks'
            /\ Len(tasks') >= p
            /\ tasks'[p] = Tail(tasks[p])

\* The deferred tasks that have their store still to do.
PendingClears == {p \in 1..Len(tasks) : HeadIs(p, "store_flash")}

(***************************************************************************)
(* C22.  The flash colour is the colour of the latest store: a store sets  *)
(* it to the colour it was given, whatever flashes are newer, and no other *)
(* step changes it; a deferred clear is never dropped before its store,    *)
(* and the colour it stores is black.                                      *)
(***************************************************************************)
C22_OverlayIsLastStore ==
    [][/\ \A p \in Producers :
             StoreBy(p) => FLASH_COLOR' = Head(Ops(p)).color
       /\ (\A p \in Producers : ~StoreBy(p)) => FLASH_COLOR' = FLASH_COLOR
       /\ \A p \in PendingClears : Head(Ops(p)).color = BLACK
       /\ Cardinality(PendingClears') < Cardinality(PendingClears) =>
             \E p \in PendingClears : StoreBy(p)]_vars

\* The second flash (blue, after a purple one) has stored its colour and
\* enqueued its frames but not yet spawned its clear, the clear of the first
\* flash has run to its end, the flash colour is black and the newest frame
\* of the queue log is the frame composed without a flash.
C22_Witness ==
    /\ budget = 0
    /\ dispatch = <<OpSpawn(350)>>
    /\ tasks = <<>>
    /\ FLASH_COLOR = BLACK
    /\ \E i \in 1..Len(enq_log) :
          /\ IndicatorRowIs(enq_log[i], BLUE)
          /\ \E j \in 1..(i - 1) : IndicatorRowIs(enq_log[j], PURPLE)
    /\ enq_log[Len(enq_log)]
          = CompositeFrame(progress_map, notification_q, BLACK, get_base)
    /\ ~IndicatorRowIs(enq_log[Len(enq_log)], BLUE)

(***************************************************************************)
(* C23.  No step of composite (fade_into_frame included) changes the       *)
(* progress map, the two notification lists, the flash colour, the         *)
(* screen-lock flag or the base frame; the target composite fades into is  *)
(* CompositeFrame of those values as they are when it is called, and the   *)
(* last frame the fade enqueues is that target whatever LAST_FRAME was.    *)
(***************************************************************************)
CompositeInputs ==
    <<progress_map, pending_notification_q, notification_q, FLASH_COLOR,
      SCREEN_LOCKED, BASE_FRAME>>

CompositeStep(p) ==
    Composite(p) \/ FadeBegin(p) \/ EnqWrite(p) \/ EnqPush(p)

C23_CompositeReadsItsInputsOnly ==
    [][\A p \in Producers :
          /\ CompositeStep(p) => UNCHANGED CompositeInputs
          /\ Composite(p)
               /\ ~top_bar_panics(progress_map, get_base)
               /\ ~composite_panics(notification_q, FLASH_COLOR, get_base) =>
                LET ops == IF p = 0 THEN dispatch' ELSE tasks'[p]
                IN  /\ Head(ops).k = "fade"
                    /\ Head(ops).to = CompositeFrame(progress_map,
                                                     notification_q,
                                                     FLASH_COLOR, get_base)
          /\ EnqPush(p) /\ Head(Ops(p)).i = Head(Ops(p)).n =>
                FRAME_Q' = Append(FRAME_Q, Head(Ops(p)).to)]_vars

\* The clear of a blue flash is about to push the last frame of its fade: the
\* fade started from a blue indicator row and ends in the very frame that the
\* clear of an earlier, purple flash has enqueued.
C23_Witness ==
    /\ Len(tasks) = 1
    /\ HeadIs(1, "push")
    /\ LET op == Head(Ops(1))
       IN  /\ op.i = op.n
           /\ IndicatorRowIs(op.from, BLUE)
           /\ op.frame = op.to
           /\ \E j \in 1..Len(enq_log) :
                 /\ enq_log[j] = op.to
                 /\ \E h \in 1..(j - 1) : IndicatorRowIs(enq_log[h], PURPLE)

(***************************************************************************)
(* SpecDevice: the engine on a keyboard named by the configuration         *)
(* (main.rs:48-50), whose LED count the hardware reports.  main builds     *)
(* LAST_FRAME and BASE_FRAME with one colour for every LED of the device   *)
(* (main.rs:102-104, 107-127, 221); the handlers are the screen-lock       *)
(* handler and the composites it starts.                                   *)
(***************************************************************************)
DeviceLeds == {TOTAL_LEDS - 8, TOTAL_LEDS, TOTAL_LEDS + 8}

\* get_frame_by_key_names with the fallback rule of main.rs:122-125.
device_target_substrate(total_leds) ==
    [k \in 1..total_leds |-> IF k - 1 <= 14 THEN TOP_ROW_COLOR ELSE MAIN_COLOR]

InitDevice ==
    /\ \E total_leds \in DeviceLeds :
          /\ LAST_FRAME = device_target_substrate(total_leds)
          /\ BASE_FRAME = device_target_substrate(total_leds)
    /\ FRAME_Q = <<>>
    /\ SCREEN_LOCKED = FALSE
    /\ FLASH_COLOR = BLACK
    /\ ABOUT_TO_SHUTDOWN = 0
    /\ progress_map = [s \in DOMAIN progress_seed |->
                          [color |-> progress_seed[s], ratio |-> ZeroRatio]]
    /\ pending_notification_q = <<>>
    /\ notification_q = <<>>
    /\ now = 0
    /\ dispatch = <<>>
    /\ tasks = <<>>
    /\ renderer = "running"
    /\ hw = <<>>
    /\ enq_log = <<>>
    /\ budget = MaxEvents
    /\ fade_log = <<>>
    /\ probe = <<>>

NextDevice ==
    \/ \E locked \in BOOLEAN : ScreenLockChanged(locked)
    \/ Composite(0)
    \/ FadeBegin(0)
    \/ EnqWrite(0)
    \/ EnqPush(0)

SpecDevice == InitDevice /\ [][NextDevice]_vars

(***************************************************************************)
(* C24.  LAST_FRAME and every frame of the queue have one entry for every  *)
(* LED of the device, which is the length main gave BASE_FRAME.            *)
(***************************************************************************)
C24_FramesKeepDeviceLength ==
    /\ Len(LAST_FRAME) = Len(BASE_FRAME)
    /\ \A j \in 1..Len(FRAME_Q) : Len(FRAME_Q[j]) = Len(BASE_FRAME)

\* A keyboard of 140 LEDs with the screen locked: LAST_FRAME has 132 entries.
C24_Witness ==
    /\ Len(BASE_FRAME) = TOTAL_LEDS + 8
    /\ SCREEN_LOCKED
    /\ dispatch = <<>>
    /\ Len(LAST_FRAME) = TOTAL_LEDS

\* On a keyboard of ROW_LENGTH * ROW_COUNT LEDs or fewer every frame keeps
\* the length of the device.
C24_FramesKeepLengthUpToTotalLeds ==
    Len(BASE_FRAME) <= TOTAL_LEDS => C24_FramesKeepDeviceLength

(***************************************************************************)
(* C25.  With one entry of ratio r above 0, 0 < r < 1 and 17 r not whole,  *)
(* a black flash colour and no displayed notification, the target frame    *)
(* holds the entry's colour on the floor(17 r) positions from              *)
(* COL_OFFSET_START on, holds at the next position p the colour            *)
(* lerp(base[p], entry colour, fraction of 17 r), and holds the base       *)
(* colour at every later position.                                         *)
(***************************************************************************)
SingleBar ==
    /\ Cardinality(ActiveBars(progress_map)) = 1
    /\ notification_q = <<>>
    /\ FLASH_COLOR = BLACK
    /\ LET r == progress_map[CHOOSE s \in ActiveBars(progress_map) : TRUE].ratio
       IN  r[1] < r[2] /\ (TOP_ROW_LENGTH * r[1]) % r[2] # 0

SingleEntry == progress_map[CHOOSE s \in ActiveBars(progress_map) : TRUE]

\* The bar as the claim gives it, its partial LED lerped from the colour
\* base_of_partial.
SingleBarFrame(base_of_partial) ==
    LET scaled == scaled_progress(RatioF64(SingleEntry.ratio))
        filled == filled_leds(scaled)
        partial == lerp_color(base_of_partial, SingleEntry.color,
                              last_led_progress(scaled))
    IN  [k \in 1..Len(get_base) |->
            IF k - 1 < COL_OFFSET_START THEN get_base[k]
            ELSE IF k - 1 < COL_OFFSET_START + filled THEN SingleEntry.color
            ELSE IF k - 1 = COL_OFFSET_START + filled THEN partial
            ELSE get_base[k]]

PartialLedPosition ==
    COL_OFFSET_START
       + filled_leds(scaled_progress(RatioF64(SingleEntry.ratio)))

C25_PartialLedLerpsFromItsOwnBase ==
    SingleBar /\ CompositeTargetBuilt =>
        CompositeTarget = SingleBarFrame(At(get_base, PartialLedPosition))

\* Blue at 7/8 with the screen unlocked: the partial LED is at position 15,
\* whose base colour is MAIN_COLOR, and holds the colour lerped from
\* TOP_ROW_COLOR, the base colour of position 14.
C25_Witness ==
    /\ SingleBar
    /\ CompositeTargetBuilt
    /\ ~SCREEN_LOCKED
    /\ SingleEntry = [color |-> BLUE, ratio |-> <<7, 8>>]
    /\ PartialLedPosition = 15
    /\ At(get_base, 15) = MAIN_COLOR
    /\ At(CompositeTarget, 15) = lerp_color(TOP_ROW_COLOR, BLUE, F64Div(7, 8))
    /\ At(CompositeTarget, 15) # lerp_color(MAIN_COLOR, BLUE, F64Div(7, 8))

\* The partial LED is lerped from the base colour COL_OFFSET_START positions
\* before it.
C25_PartialLedLerpsFromBarIndex ==
    SingleBar /\ CompositeTargetBuilt =>
        CompositeTarget
           = SingleBarFrame(At(get_base, PartialLedPosition - COL_OFFSET_START))

(***************************************************************************)
(* C26.  When every entry that counts has a ratio of at most 1, composite  *)
(* panics on no index of top_bar: every entry fills at most                *)
(* TOP_ROW_LENGTH LEDs, its partial LED is an entry of top_bar, and a      *)
(* panic, if there is one, is that of the notification markers; with no    *)
(* marker to paint the target frame differs from the base frame inside the *)
(* indicator row only.                                                     *)
(***************************************************************************)
RatiosInUnit ==
    \A s \in ActiveBars(progress_map) :
        progress_map[s].ratio[1] <= progress_map[s].ratio[2]

C26_BarStaysInIndicatorRow ==
    RatiosInUnit =>
        /\ \A s \in ActiveBars(progress_map) :
              LET bar == Bar(progress_map[s], get_base)
              IN  /\ bar.filled <= TOP_ROW_LENGTH
                  /\ bar.filled < ROW_LENGTH
                  /\ bar.colored <= TOP_ROW_LENGTH
        /\ CompositePanicked =>
              composite_panics(notification_q, FLASH_COLOR, get_base)
        /\ CompositeTargetBuilt /\ notification_q = <<>> =>
              /\ Len(CompositeTarget) = Len(get_base)
              /\ \A q \in 0..(Len(get_base) - 1) :
                    q < COL_OFFSET_START
                       \/ q >= COL_OFFSET_START + TOP_ROW_LENGTH
                       => At(CompositeTarget, q) = At(get_base, q)

\* One entry at ratio 1: the bar ends on frame position 17, the last of the
\* indicator row, and position 18 is as the base frame has it.
C26_Witness ==
    /\ CompositeTargetBuilt
    /\ FLASH_COLOR = BLACK
    /\ notification_q = <<>>
    /\ ~SCREEN_LOCKED
    /\ Cardinality(ActiveBars(progress_map)) = 1
    /\ SingleEntry = [color |-> BLUE, ratio |-> <<1, 1>>]
    /\ Bar(SingleEntry, get_base).filled = TOP_ROW_LENGTH
    /\ At(CompositeTarget, COL_OFFSET_START + TOP_ROW_LENGTH - 1) = BLUE
    /\ At(CompositeTarget, COL_OFFSET_START + TOP_ROW_LENGTH) = MAIN_COLOR

\* An entry at ratio 3/2 fills 25 LEDs: composite has panicked on top_bar
\* with no notification displayed.
C26_PanicAboveOne ==
    /\ CompositePanicked
    /\ notification_q = <<>>
    /\ \E s \in ActiveBars(progress_map) : progress_map[s].ratio = <<3, 2>>

(***************************************************************************)
(* The shutdown thread, main.rs:129-156, and the end of the dispatch loop, *)
(* dbus.rs:318-324.  The thread is a producer like a deferred task: it     *)
(* joins `tasks` when the signal arrives.                                  *)
(***************************************************************************)
OpShutdownFrame(i) == [k |-> "shutdown_frame", i |-> i]
OpStoreShutdown == [k |-> "store_shutdown"]
\* process_dbus has returned.
OpExited == [k |-> "exited"]

\* What the thread does once signals.forever().next() has returned.
shutdown_thread ==
    [i \in 1..6 |-> OpShutdownFrame(i)]
       \o <<OpFade(BLACK_SUBSTRATE, FRAME_DURATION_MS * 7, FALSE),
            OpStoreShutdown>>

IsShutdownThread(p) ==
    /\ p \in 1..Len(tasks)
    /\ tasks[p][Len(tasks[p])].k = "store_shutdown"

\* SIGINT or SIGTERM arrives; the iterator is read once.
SignalReceived ==
    /\ ABOUT_TO_SHUTDOWN = 0
    /\ \A p \in 1..Len(tasks) : ~IsShutdownThread(p)
    /\ tasks' = Append(tasks, shutdown_thread)
    /\ UNCHANGED <<LAST_FRAME, BASE_FRAME, FRAME_Q, SCREEN_LOCKED, FLASH_COLOR,
                   ABOUT_TO_SHUTDOWN, progress_map, pending_notification_q,
                   notification_q, now, dispatch, renderer, hw, enq_log,
                   budget, fade_log, probe>>

\* The values rng.gen() is drawn from, as r * 255: r is in [0, 1).
ShutdownLevels == {0, 254}

\* main.rs:138-149 with the same r for every LED.
ShutdownFrame(p) ==
    /\ HeadIs(p, "shutdown_frame")
    /\ \E level \in ShutdownLevels :
          SetOps(p,
                 <<OpFade(Substrate(Col(level \div Head(Ops(p)).i, 0, 0)),
                          FRAME_DURATION_MS * 3, FALSE)>> \o Tail(Ops(p)),
                 <<>>)
    /\ UNCHANGED <<LAST_FRAME, BASE_FRAME, FRAME_Q, SCREEN_LOCKED, FLASH_COLOR,
                   ABOUT_TO_SHUTDOWN, progress_map, pending_notification_q,
                   notification_q, now, renderer, hw, enq_log, budget,
                   fade_log, probe>>

\* ABOUT_TO_SHUTDOWN.store(1), main.rs:153.
StoreShutdown(p) ==
    /\ HeadIs(p, "store_shutdown")
    /\ ABOUT_TO_SHUTDOWN' = 1
    /\ SetOps(p, Tail(Ops(p)), <<>>)
    /\ UNCHANGED <<LAST_FRAME, BASE_FRAME, FRAME_Q, SCREEN_LOCKED, FLASH_COLOR,
                   progress_map, pending_notification_q, notification_q, now,
                   renderer, hw, enq_log, budget, fade_log, probe>>

\* conn.process has returned and the marker is above 1, dbus.rs:320-323.
DispatchExit ==
    /\ dispatch = <<>>
    /\ ABOUT_TO_SHUTDOWN > 1
    /\ dispatch' = <<OpExited>>
    /\ UNCHANGED <<LAST_FRAME, BASE_FRAME, FRAME_Q, SCREEN_LOCKED, FLASH_COLOR,
                   ABOUT_TO_SHUTDOWN, progress_map, pending_notification_q,
                   notification_q, now, tasks, renderer, hw, enq_log, budget,
                   fade_log, probe>>

(***************************************************************************)
(* SpecShutdown: the signal, the shutdown animation, the renderer and the  *)
(* end of the render task and of the dispatch loop, which has no message   *)
(* to handle meanwhile.                                                    *)
(***************************************************************************)
NextShutdown ==
    \/ SignalReceived
    \/ \E p \in Producers :
          \/ ShutdownFrame(p)
          \/ FadeBegin(p)
          \/ EnqWrite(p)
          \/ EnqPush(p)
          \/ StoreShutdown(p)
    \/ RendererStep
    \/ RenderTaskEnd
    \/ DispatchExit

SpecShutdown == InitIdle(0) /\ [][NextShutdown]_vars

RendererStopped == renderer # "running"

(***************************************************************************)
(* C27.  The renderer leaves its loop only in a step that finds FRAME_Q    *)
(* empty with ABOUT_TO_SHUTDOWN above 0; when it has left the loop, every  *)
(* frame enqueued until then, the shutdown animation among them, has been  *)
(* pushed to hardware.  ABOUT_TO_SHUTDOWN goes from 0 to 1 to 2, is 2 only *)
(* when the renderer has left its loop, and the dispatch loop has returned *)
(* only when it is 2.                                                      *)
(***************************************************************************)
C27_RendererStopsAfterLastFrame ==
    /\ [][/\ ~RendererStopped /\ RendererStopped' =>
                FRAME_Q = <<>> /\ ABOUT_TO_SHUTDOWN > 0
          /\ ABOUT_TO_SHUTDOWN' # ABOUT_TO_SHUTDOWN =>
                ABOUT_TO_SHUTDOWN' = ABOUT_TO_SHUTDOWN + 1]_vars
    /\ [](/\ ABOUT_TO_SHUTDOWN \in 0..2
          /\ RendererStopped =>
                /\ \A p \in 1..Len(tasks) : ~IsShutdownThread(p)
                /\ Len(hw) = 6 * 3 + 7
                /\ hw = enq_log
          /\ ABOUT_TO_SHUTDOWN = 2 => RendererStopped
          /\ dispatch = <<OpExited>> => ABOUT_TO_SHUTDOWN = 2)

\* The renderer has left its loop on a failed update_zone_leds while the
\* shutdown animation is still in the queue.
C27_Witness ==
    /\ renderer = "failed"
    /\ ABOUT_TO_SHUTDOWN = 1
    /\ FRAME_Q # <<>>
    /\ tasks = <<>>

\* As C27 for a renderer that leaves its loop by its return of Ok.
C27_RendererReturnsAfterLastFrame ==
    /\ [][/\ renderer = "running" /\ renderer' = "returned" =>
                FRAME_Q = <<>> /\ ABOUT_TO_SHUTDOWN > 0
          /\ ABOUT_TO_SHUTDOWN' # ABOUT_TO_SHUTDOWN =>
                ABOUT_TO_SHUTDOWN' = ABOUT_TO_SHUTDOWN + 1]_vars
    /\ [](/\ ABOUT_TO_SHUTDOWN \in 0..2
          /\ renderer \in {"returned", "ended"} =>
                /\ \A p \in 1..Len(tasks) : ~IsShutdownThread(p)
                /\ Len(hw) = 6 * 3 + 7
                /\ hw = enq_log
          /\ ABOUT_TO_SHUTDOWN = 2 => renderer = "ended"
          /\ dispatch = <<OpExited>> => ABOUT_TO_SHUTDOWN = 2)

\* The program has shut down in good order.
C27_ShutDown ==
    /\ dispatch = <<OpExited>>
    /\ renderer = "ended"
    /\ Len(hw) = 6 * 3 + 7
    /\ hw[Len(hw)] = BLACK_SUBSTRATE

(***************************************************************************)
(* C29.  No producer waits for ever for a lock.  The one lock a producer   *)
(* can find taken is that of notification_q: a producer that waits for its *)
(* write lock holds no lock itself, and the read lock it waits for is held *)
(* by another producer, which is inside fade_into_frame and waits for      *)
(* nothing.  composite and flash_color start in a producer that holds no   *)
(* lock on notification_q, and a deferred task never touches the pending   *)
(* list nor writes to notification_q.                                      *)
(***************************************************************************)
WaitsForWrite(p) ==
    /\ HeadIs(p, "push_notif") \/ HeadIs(p, "remove_notif")
    /\ ~CanWriteNotifications

InsideFade(p) ==
    Ops(p) # <<>> /\ Head(Ops(p)).k \in {"fade", "enq", "push"}

NoFadeInProgress == \A p \in Producers : ~InsideFade(p)

C28_LastFrameIsNewestEnqueued ==
    NoFadeInProgress /\ enq_log # <<>> =>
        LAST_FRAME = enq_log[Len(enq_log)]

\* Every handler and every deferred task has returned, and LAST_FRAME is
\* a frame enqueued earlier than the newest one.
C28_Witness ==
    /\ Quiescent
    /\ budget = 0
    /\ enq_log # <<>>
    /\ LAST_FRAME # enq_log[Len(enq_log)]
    /\ \E j \in 1..(Len(enq_log) - 1) : LAST_FRAME = enq_log[j]

(***************************************************************************)
(* SpecReplies: the dispatch loop gets five messages about two             *)
(* notifications of one sender: the two Notify, the replies that deliver   *)
(* the ids FirstReplyId and SecondReplyId, and a NotificationClosed with   *)
(* one of the two ids.  budget tells how many of them are still to come.   *)
(***************************************************************************)
FirstReplyId == 7
SecondReplyId == 9
ReplySender == ":1.50"

NextReplies ==
    \/ /\ budget \in {4, 5}
       /\ \E application \in {"Mail", "Chat"} : Notify(application, ReplySender)
    \/ /\ budget = 3
       /\ NotificationDelivered(FirstReplyId, ReplySender)
    \/ /\ budget = 2
       /\ NotificationDelivered(SecondReplyId, ReplySender)
    \/ /\ budget = 1
       /\ \E id \in {FirstReplyId, SecondReplyId}, reason \in Reasons :
             NotificationClosed(id, reason)
    \/ EngineStep
    \/ \E p \in Producers : PushNotif(p) \/ Cleanup(p)

SpecReplies == InitIdle(5) /\ [][NextReplies]_vars

\* The entry the first (k = 5) or the second (k = 4) Notify has made.
EntriesOfNotify(k) ==
    {j \in 1..Len(pending_notification_q) :
        pending_notification_q[j].serial = k}

(***************************************************************************)
(* C30.  Of two pending notifications of one sender the older one keeps    *)
(* id 0 and stays in the pending list whatever replies and closes follow;  *)
(* both replies tag the newer one, which has the id of the second reply    *)
(* once both are handled; NotificationClosed with the id of the first      *)
(* reply then finds no entry and changes nothing.                          *)
(***************************************************************************)
C30_RepliesTagNewestOnly ==
    /\ [](/\ budget <= 4 => EntriesOfNotify(5) # {}
          /\ \A j \in EntriesOfNotify(5) : pending_notification_q[j].id = 0
          /\ budget = 2 =>
                \A j \in EntriesOfNotify(4) :
                   pending_notification_q[j].id = FirstReplyId
          /\ budget <= 1 =>
                \A j \in EntriesOfNotify(4) :
                   pending_notification_q[j].id = SecondReplyId)
    /\ [][\A reason \in Reasons :
             budget = 1 /\ NotificationClosed(FirstReplyId, reason) =>
                /\ UNCHANGED <<pending_notification_q, notification_q,
                               FLASH_COLOR, tasks>>
                /\ dispatch' = <<>>]_vars

\* Both replies and NotificationClosed(7) are handled: the older entry has
\* id 0, the newer one has id 9, and both are still pending.
C30_Witness ==
    /\ budget = 0
    /\ dispatch = <<>>
    /\ Len(pending_notification_q) = 2
    /\ pending_notification_q[1].id = 0
    /\ pending_notification_q[2].id = SecondReplyId
    /\ pending_notification_q[1].sender = pending_notification_q[2].sender


(***************************************************************************)
(* SpecPromote: the life of one notification of "Mail" (important, flash   *)
(* on auto close) up to its promotion, followed by one progress update     *)
(* that flashes nothing.  The deferred clear sleeps 500 ms (dbus.rs:254,   *)
(* utils.rs:219) while the Closed handler that spawned it only enqueues    *)
(* six frames, so here the clear wakes after that handler has returned;    *)
(* it runs beside the handler of the progress update.                      *)
(***************************************************************************)
HoldElapsed == budget = 0 \/ dispatch = <<>>

NextPromote ==
    \/ /\ budget = 4
       /\ \E sender \in Senders : Notify("Mail", sender)
    \/ /\ budget = 3
       /\ \E id \in LifecycleIds :
             NotificationDelivered(id, pending_notification_q[1].sender)
    \/ /\ budget = 2
       /\ NotificationClosed(pending_notification_q[1].id, 1)
    \/ /\ budget = 1
       /\ ProgressUpdate("firefox", <<1, 2>>, TRUE, 0)
    \/ StoreFlash(0)
    \/ Composite(0)
    \/ FadeBegin(0)
    \/ EnqWrite(0)
    \/ EnqPush(0)
    \/ Spawn(0)
    \/ PushNotif(0)
    \/ \E p \in 1..Len(tasks) : HoldElapsed /\ StoreFlash(p)
    \/ \E p \in 1..Len(tasks) : HoldElapsed /\ Composite(p)
    \/ \E p \in 1..Len(tasks) : HoldElapsed /\ FadeBegin(p)
    \/ \E p \in 1..Len(tasks) : HoldElapsed /\ EnqWrite(p)
    \/ \E p \in 1..Len(tasks) : HoldElapsed /\ EnqPush(p)

SpecPromote == InitIdle(4) /\ [][NextPromote]_vars

(***************************************************************************)
(* C31.  An important notification promoted while the flash colour is not  *)
(* black: the recomposite of the Closed handler (composite with 200 ms,    *)
(* dbus.rs:263) fades into a frame whose indicator row is the flash colour *)
(* all over, so the marker of the notification is not in it; and the       *)
(* marker is not lost: once the handler has returned and the deferred      *)
(* clear has run, with no further message, LAST_FRAME has the colour of    *)
(* every displayed notification j at position COL_OFFSET_START + 2 + j.    *)
(* "Eventually" is stated on the states the fair runs end in: no handler   *)
(* and no deferred task has a step left, and the messages still to come    *)
(* are neither a flash nor a close.                                        *)
(***************************************************************************)
\* frame has the marker of every displayed notification.
MarkersShown(frame) ==
    \A j \in 1..Len(notification_q) :
        At(frame, MarkerPosition(j - 1))
           = notification_map[notification_q[j].settings].color

\* The dispatch loop is about to run the recomposite of the Closed handler.
ClosedRecomposite == HeadIs(0, "composite") /\ Head(dispatch).d = 200

C31_RecompositeUnderFlashHidesMarker ==
    [][ClosedRecomposite /\ Composite(0) /\ FLASH_COLOR # BLACK =>
          /\ dispatch'[1].k = "fade"
          /\ IndicatorRowIs(dispatch'[1].to, FLASH_COLOR)
          /\ ~MarkersShown(dispatch'[1].to)]_vars

C31_MarkerShownAtRest ==
    Quiescent /\ budget <= 1 /\ notification_q # <<>> =>
        MarkersShown(LAST_FRAME)

C31_MarkerIsNotLost ==
    /\ C31_RecompositeUnderFlashHidesMarker
    /\ []C31_MarkerShownAtRest

\* The notification is displayed, every handler has returned, the deferred
\* clear has run and the flash colour is black again, and the indicator row
\* of LAST_FRAME is the flash colour all over: no marker.
C31_Witness ==
    /\ Quiescent
    /\ budget = 0
    /\ Len(notification_q) = 1
    /\ notification_q[1].settings = "Mail"
    /\ FLASH_COLOR = BLACK
    /\ IndicatorRowIs(LAST_FRAME, CYAN)

\* Up to the progress update the marker is there once the clear has run.
C31_MarkerShownBeforeNextMessage ==
    Quiescent /\ budget = 1 /\ notification_q # <<>> =>
        MarkersShown(LAST_FRAME)

=============================================================================
